---- MODULE Spec2Model ----
(***************************************************************************)
(* State-machine model of ceph-mgr-endpoint-controller (main.go).          *)
(*                                                                         *)
(* The controller connects to the Ceph cluster and to the Kubernetes API,  *)
(* runs one cycle (query "mgr services", resolve each tracked service's    *)
(* URL, reconcile its EndpointSlice), and then either exits (interval = 0) *)
(* or repeats the cycle on every tick of a ticker until SIGINT/SIGTERM.    *)
(*                                                                         *)
(* Program steps are split at every call that leaves the process (mon      *)
(* command, DNS lookup, Get/Update/Create on the API server), so that the  *)
(* environment (signals, the ticker, other writers of the EndpointSlices,  *)
(* DNS) can interleave exactly where it can in the running program.        *)
(***************************************************************************)
EXTENDS Integers, Sequences, FiniteSets, TLC

(***************************************************************************)
(* Bounds of the model.                                                    *)
(***************************************************************************)
\* number of writes by other clients of the API server in one behaviour
MaxExternal == 1

(***************************************************************************)
(* Data.                                                                   *)
(***************************************************************************)
Services == {"dashboard", "prometheus"}

\* a nil *string / *Protocol, and a nil *int32
Nil == "<nil>"
NilPort == -1

IPv4Literals == {"10.0.0.5", "10.0.0.6", "10.0.0.7"}
IPv6Literals == {"fd00::7"}

\* net.ParseIP: the parsed address, or Nil when host is not an IP literal.
ParseIP(host) == IF host \in IPv4Literals \cup IPv6Literals THEN host ELSE Nil

\* net.IP.To4() != nil
To4(ip) == ip \in IPv4Literals

\* A raw service URL as url.Parse sees it: err (url.Parse failed), u.Scheme,
\* u.Hostname() and u.Port() (a string of decimal digits, <<>> when absent).
\* The empty string parses to the all-empty URL.
URL(scheme, host, port) == [err |-> FALSE, scheme |-> scheme, host |-> host, port |-> port]
EmptyURL == URL("", "", <<>>)
MalformedURL == [err |-> TRUE, scheme |-> "", host |-> "", port |-> <<>>]

\* An int (64 bits) is kept as its decimal digits, most significant first and
\* without leading zeros (<<>> is 0): the ports a URL can carry do not fit the
\* integers of the model checker.
RECURSIVE StripZeros(_)
StripZeros(ds) ==
    IF ds # <<>> /\ Head(ds) = 0 THEN StripZeros(Tail(ds)) ELSE ds

\* a <= b for two such ints
RECURSIVE DigitsLeq(_, _)
DigitsLeq(a, b) ==
    IF Len(a) # Len(b) THEN Len(a) < Len(b)
    ELSE IF a = <<>> THEN TRUE
    ELSE IF Head(a) # Head(b) THEN Head(a) < Head(b)
    ELSE DigitsLeq(Tail(a), Tail(b))

\* math.MaxInt64
MaxInt64 == <<9, 2, 2, 3, 3, 7, 2, 0, 3, 6, 8, 5, 4, 7, 7, 5, 8, 0, 7>>

\* strconv.Atoi on a string of decimal digits (u.Port() holds nothing else):
\* an error for the empty string and for a value above MaxInt64.
Atoi(ds) ==
    IF ds = <<>> THEN [err |-> TRUE, n |-> <<>>]
    ELSE IF ~DigitsLeq(StripZeros(ds), MaxInt64) THEN [err |-> TRUE, n |-> <<>>]
    ELSE [err |-> FALSE, n |-> StripZeros(ds)]

\* the low 32 bits of an int, as two 16-bit halves
RECURSIVE Low32(_, _, _)
Low32(n, hi, lo) ==
    IF n = <<>> THEN [hi |-> hi, lo |-> lo]
    ELSE LET l == lo * 10 + Head(n)
             h == hi * 10 + (l \div 65536)
         IN  Low32(Tail(n), h % 65536, l % 65536)

\* int32(port): the low 32 bits, read as a two's complement number
Int32(n) ==
    LET w == Low32(n, 0, 0)
    IN  IF w.hi >= 32768 THEN (w.hi - 65536) * 65536 + w.lo
        ELSE w.hi * 65536 + w.lo

\* Answers of net.LookupIP: an error, or a list of addresses.
DnsError == [err |-> TRUE, ips |-> <<>>]
DnsIPs(ips) == [err |-> FALSE, ips |-> ips]

\* the first element of ips satisfying To4, or Nil
RECURSIVE FirstIPv4(_)
FirstIPv4(ips) ==
    IF ips = <<>> THEN Nil
    ELSE IF To4(ips[1]) THEN ips[1] ELSE FirstIPv4(Tail(ips))

NoAddr == [IP |-> Nil, Port |-> NilPort]
ParseErr(e) == [err |-> e, addr |-> NoAddr]

parseServiceURL_SchemeFirst(rawURL, lookup) ==
    IF rawURL.err THEN ParseErr("parse URL")
    ELSE
      LET host == rawURL.host
          portStr == IF rawURL.scheme = "https" THEN <<4, 4, 3>>
                     ELSE IF rawURL.scheme = "http" THEN <<8, 0>>
                     ELSE rawURL.port
      IN  IF rawURL.port = <<>> /\ rawURL.scheme \notin {"https", "http"}
            THEN ParseErr("no port specified and unknown scheme")
          ELSE
            LET port == Atoi(portStr)
                ip == ParseIP(host)
            IN  IF port.err THEN ParseErr("invalid port")
                ELSE IF ip # Nil
                  THEN [err |-> "nil", addr |-> [IP |-> ip, Port |-> Int32(port.n)]]
                ELSE IF lookup.err THEN ParseErr("resolve hostname")
                ELSE IF Len(lookup.ips) = 0 THEN ParseErr("no IPs found for hostname")
                ELSE LET v4 == FirstIPv4(lookup.ips)
                         rip == IF v4 # Nil THEN v4 ELSE lookup.ips[1]
                     IN  [err |-> "nil", addr |-> [IP |-> rip, Port |-> Int32(port.n)]]

\* parseServiceURL(rawURL); lookup is the answer net.LookupIP gives for the host.
parseServiceURL(rawURL, lookup) ==
    IF rawURL.err THEN ParseErr("parse URL")
    ELSE
      LET host == rawURL.host
          portStr == IF rawURL.port # <<>> THEN rawURL.port
                     ELSE IF rawURL.scheme = "https" THEN <<4, 4, 3>>
                     ELSE IF rawURL.scheme = "http" THEN <<8, 0>>
                     ELSE <<>>
      IN  IF rawURL.port = <<>> /\ rawURL.scheme \notin {"https", "http"}
            THEN ParseErr("no port specified and unknown scheme")
          ELSE
            LET port == Atoi(portStr)
                ip == ParseIP(host)
            IN  IF port.err THEN ParseErr("invalid port")
                ELSE IF ip # Nil
                  THEN [err |-> "nil", addr |-> [IP |-> ip, Port |-> Int32(port.n)]]
                ELSE IF lookup.err THEN ParseErr("resolve hostname")
                ELSE IF Len(lookup.ips) = 0 THEN ParseErr("no IPs found for hostname")
                ELSE LET v4 == FirstIPv4(lookup.ips)
                         rip == IF v4 # Nil THEN v4 ELSE lookup.ips[1]
                     IN  [err |-> "nil", addr |-> [IP |-> rip, Port |-> Int32(port.n)]]

(***************************************************************************)
(* EndpointSlice objects (the fields the controller reads or writes).      *)
(*   label       value of the label kubernetes.io/service-name ("" absent) *)
(*   extraLabel  some other label is present                               *)
(*   addressType                                                           *)
(*   endpoints   list of endpoints, each the list of its addresses         *)
(*   ports       list of [name, port, protocol], Nil/NilPort for nil       *)
(***************************************************************************)
EndpointPort(name, port, protocol) == [name |-> name, port |-> port, protocol |-> protocol]

NewSlice_PortZero(serviceName, portName, addr) ==
    [label |-> serviceName,
     extraLabel |-> FALSE,
     addressType |-> "IPv4",
     endpoints |-> << <<addr.IP>> >>,
     ports |-> << EndpointPort(portName, 0, "TCP") >>]

NewSlice_NoLabel(serviceName, portName, addr) ==
    [label |-> "",
     extraLabel |-> FALSE,
     addressType |-> "IPv4",
     endpoints |-> << <<addr.IP>> >>,
     ports |-> << EndpointPort(portName, addr.Port, "TCP") >>]

\* the object updateEndpointSlice builds before it writes
NewSlice(serviceName, portName, addr) ==
    [label |-> serviceName,
     extraLabel |-> FALSE,
     addressType |-> "IPv4",
     endpoints |-> << <<addr.IP>> >>,
     ports |-> << EndpointPort(portName, addr.Port, "TCP") >>]

endpointSliceMatches_PortFlipped(slice, serviceName, portName, addr) ==
    IF slice.label # serviceName THEN FALSE
    ELSE IF slice.addressType # "IPv4" THEN FALSE
    ELSE IF Len(slice.endpoints) # 1 \/ Len(slice.endpoints[1]) # 1 THEN FALSE
    ELSE IF slice.endpoints[1][1] # addr.IP THEN FALSE
    ELSE IF Len(slice.ports) # 1 THEN FALSE
    ELSE LET port == slice.ports[1]
         IN  IF port.name = Nil \/ port.name # portName THEN FALSE
             ELSE IF port.port = NilPort \/ port.port = addr.Port THEN FALSE
             ELSE IF port.protocol = Nil \/ port.protocol # "TCP" THEN FALSE
             ELSE TRUE

endpointSliceMatches_FirstPortOnly(slice, serviceName, portName, addr) ==
    IF slice.label # serviceName THEN FALSE
    ELSE IF slice.addressType # "IPv4" THEN FALSE
    ELSE IF Len(slice.endpoints) # 1 \/ Len(slice.endpoints[1]) # 1 THEN FALSE
    ELSE IF slice.endpoints[1][1] # addr.IP THEN FALSE
    ELSE IF Len(slice.ports) < 1 THEN FALSE
    ELSE LET port == slice.ports[1]
         IN  IF port.name = Nil \/ port.name # portName THEN FALSE
             ELSE IF port.port = NilPort \/ port.port # addr.Port THEN FALSE
             ELSE IF port.protocol = Nil \/ port.protocol # "TCP" THEN FALSE
             ELSE TRUE

endpointSliceMatches(slice, serviceName, portName, addr) ==
    IF slice.label # serviceName THEN FALSE
    ELSE IF slice.addressType # "IPv4" THEN FALSE
    ELSE IF Len(slice.endpoints) # 1 \/ Len(slice.endpoints[1]) # 1 THEN FALSE
    ELSE IF slice.endpoints[1][1] # addr.IP THEN FALSE
    ELSE IF Len(slice.ports) # 1 THEN FALSE
    ELSE LET port == slice.ports[1]
         IN  IF port.name = Nil \/ port.name # portName THEN FALSE
             ELSE IF port.port = NilPort \/ port.port # addr.Port THEN FALSE
             ELSE IF port.protocol = Nil \/ port.protocol # "TCP" THEN FALSE
             ELSE TRUE

(***************************************************************************)
(* Configuration (the package-level variables read from the environment)   *)
(* and the environment's inputs.                                           *)
(***************************************************************************)
Namespaces == {"ceph"}
SliceNames == {"slice-a", "slice-b"}
Keys == Namespaces \X SliceNames

Configs ==
    [namespace : Namespaces,
     serviceName : {"", "ceph-mgr"},
     dashboardSlice : {"", "slice-a"},
     prometheusSlice : {"", "slice-a", "slice-b"},
     interval : {0, 30}]

\* URLs the "mgr services" command reports
U1 == URL("https", "10.0.0.5", <<8, 4, 4, 3>>)
UH == URL("http", "mgr.local", <<>>)
MgrURLs == {EmptyURL, MalformedURL, U1, UH}
NoServices == [dashboard |-> EmptyURL, prometheus |-> EmptyURL]

\* The value of a key in the JSON document the mon command returns: the key
\* is absent, or its value is null, a number, or a string (kept as the URL it
\* parses to; "" is EmptyURL).
JValue(t, s) == [t |-> t, s |-> s]
JAbsent == JValue("absent", EmptyURL)
JNull == JValue("null", EmptyURL)
JNumber == JValue("number", EmptyURL)
JString(u) == JValue("string", u)
JValues == {JAbsent, JNull, JNumber} \cup {JString(u) : u \in MgrURLs}

\* The document: not JSON at all (the empty buffer included), the JSON null,
\* a JSON array, or a JSON object with or without the keys "dashboard" and
\* "prometheus" and with or without keys of other mgr modules.
Response(kind, d, p, others) ==
    [kind |-> kind, dashboard |-> d, prometheus |-> p, others |-> others]
MgrResponses ==
    {Response(k, JAbsent, JAbsent, FALSE) : k \in {"garbage", "null", "array"}}
      \cup {Response("object", d, p, o) : d \in JValues, p \in JValues, o \in BOOLEAN}

\* the document reporting exactly these URLs
Reported(s) == Response("object", JString(s.dashboard), JString(s.prometheus), FALSE)

\* the services whose key the document lacks
Lacking(resp) == {s \in Services : resp[s].t = "absent"}

Unmarshal_AbsentIsError(resp) ==
    IF resp.kind = "garbage" THEN [err |-> TRUE, services |-> NoServices]
    ELSE IF resp.kind = "null" THEN [err |-> FALSE, services |-> NoServices]
    ELSE IF resp.kind = "array" THEN [err |-> TRUE, services |-> NoServices]
    ELSE IF \E s \in Services : resp[s].t \in {"number", "absent"}
      THEN [err |-> TRUE, services |-> NoServices]
    ELSE [err |-> FALSE,
          services |-> [s \in Services |->
                          IF resp[s].t = "string" THEN resp[s].s ELSE EmptyURL]]

\* json.Unmarshal(buf, &services) into a zero MgrServices: a syntax error for
\* what is not JSON; null leaves the struct as it is; an array or a value
\* that is not a string for a string field is a type error; a key that is
\* absent or null leaves its field "", keys without a field are skipped.
Unmarshal(resp) ==
    IF resp.kind = "garbage" THEN [err |-> TRUE, services |-> NoServices]
    ELSE IF resp.kind = "null" THEN [err |-> FALSE, services |-> NoServices]
    ELSE IF resp.kind = "array" THEN [err |-> TRUE, services |-> NoServices]
    ELSE IF \E s \in Services : resp[s].t = "number"
      THEN [err |-> TRUE, services |-> NoServices]
    ELSE [err |-> FALSE,
          services |-> [s \in Services |->
                          IF resp[s].t = "string" THEN resp[s].s ELSE EmptyURL]]

\* getMgrServices: the mon command (monFails: it returned an error), then
\* the decoding of its output
getMgrServices(monFails, resp) ==
    IF monFails THEN [err |-> "mon command", services |-> NoServices]
    ELSE IF Unmarshal(resp).err THEN [err |-> "unmarshal response", services |-> NoServices]
    ELSE [err |-> "nil", services |-> Unmarshal(resp).services]

\* what the resolver may answer for mgr.local
DnsAnswers == {DnsError, DnsIPs(<<"fd00::7", "10.0.0.7">>)}

\* objects other clients of the API server may write: the object the
\* controller writes for the dashboard at 10.0.0.5:8443, and deviations of it
\* (the port name "prometheus" makes it the object written for prometheus)
Given == [IP |-> "10.0.0.5", Port |-> 8443]
Deviations(o) ==
    {o,
     [o EXCEPT !.extraLabel = TRUE],
     [o EXCEPT !.label = "other"],
     [o EXCEPT !.addressType = "IPv6"],
     [o EXCEPT !.endpoints = << <<"10.0.0.9">> >>],
     [o EXCEPT !.ports[1].name = "prometheus"],
     [o EXCEPT !.ports[1].port = 9999],
     [o EXCEPT !.ports[1].protocol = "UDP"],
     [o EXCEPT !.ports[1].port = NilPort],
     [o EXCEPT !.ports[1].name = Nil],
     [o EXCEPT !.ports[1].protocol = Nil],
     [o EXCEPT !.endpoints = <<>>],
     [o EXCEPT !.endpoints = << <<>> >>],
     [o EXCEPT !.endpoints = << <<"10.0.0.5">>, <<"10.0.0.9">> >>],
     [o EXCEPT !.ports = <<>>],
     [o EXCEPT !.endpoints = << <<"10.0.0.5", "10.0.0.9">> >>],
     [o EXCEPT !.ports = << o.ports[1], EndpointPort("http", 80, "TCP") >>]}
ExternalObjects == Deviations(NewSlice("ceph-mgr", "dashboard", Given))
\* one of them: the object of another parent service
ForeignObjects == {[NewSlice("ceph-mgr", "dashboard", Given) EXCEPT !.label = "other"]}

\* the inputs of the environment are what the program takes them for: URLs,
\* JSON documents of URLs, resolver answers, and EndpointSlices whose port
\* entries have a name, a number and a protocol
WellFormedURL(u) == u = [err |-> u.err, scheme |-> u.scheme, host |-> u.host, port |-> u.port]
WellFormedSlice(o) ==
    /\ \A i \in 1..Len(o.ports) :
         o.ports[i] = EndpointPort(o.ports[i].name, o.ports[i].port, o.ports[i].protocol)
    /\ \A i \in 1..Len(o.endpoints) : Len(o.endpoints[i]) >= 0
EnvOK ==
    /\ \A u \in MgrURLs : WellFormedURL(u)
    /\ \A r \in MgrResponses :
         /\ Lacking(r) \subseteq Services
         /\ \A k \in Services : r[k] = JValue(r[k].t, r[k].s)
    /\ \A d \in DnsAnswers : d = [err |-> d.err, ips |-> d.ips]
    /\ \A o \in ExternalObjects \cup ForeignObjects : WellFormedSlice(o)
    /\ ForeignObjects \subseteq ExternalObjects

(***************************************************************************)
(* State.                                                                  *)
(***************************************************************************)
VARIABLES
    cfg,        \* namespace, serviceName, dashboardSlice, prometheusSlice, interval
    pc,         \* where main is
    cur,        \* the service run is working on
    clientset,  \* the Kubernetes client was created
    cancelled,  \* ctx is done (SIGINT/SIGTERM received)
    ticker,     \* the ticker was created
    tick,       \* a tick is waiting in ticker.C
    exitCode,   \* "none" while running, then 0 or 1
    services,   \* the decoded answer of "mgr services" (a local of run)
    addr,       \* the address parseServiceURL returned for cur
    runErr,     \* the error run returned
    store,      \* the EndpointSlices on the API server: <<>> or <<object>>
    settled,    \* <<>>, or <<e>> once the environment has settled on e
    ext,        \* writes by other clients so far
    rec,        \* history of the current updateEndpointSlice call
    cyc,        \* history of the current cycle
    mainInterval, \* main's local interval (the reloading main)
    period,     \* the period of the ticker, 0 before time.NewTicker
    logDebug,   \* the default logger logs at debug level
    tk,         \* history of the current tick of the reloading main
    reloads,    \* reloads that changed the configuration so far
    rawURL,     \* resolution on its own: the URL,
    dnsAnswer,  \*   the answer of the resolver for its host,
    resolved    \*   and <<>> or <<what parseServiceURL returned>>

\* the variables main.go's main does not have
aux == <<mainInterval, period, logDebug, tk, reloads, rawURL, dnsAnswer, resolved>>

vars == <<cfg, pc, cur, clientset, cancelled, ticker, tick, exitCode, services,
          addr, runErr, store, settled, ext, rec, cyc, aux>>

NoErr == [kind |-> "nil", svc |-> "none"]
Err(kind, svc) == [kind |-> kind, svc |-> svc]

\* rec: svc, the Get calls issued and what Get returned (got, obj), the
\* Update, Create and Apply calls issued,
\* the object last written, whether a call failed other than by not-found,
\* whether another client wrote the object since Get, what the Get of the
\* parent Service returned (ownerGet), and the result
NoRec == [svc |-> "none", gets |-> 0, got |-> "none", obj |-> <<>>, updates |-> 0,
          creates |-> 0, applies |-> 0, wrote |-> <<>>, failed |-> FALSE, ext |-> FALSE,
          ownerGet |-> "none", result |-> "none"]
\* cyc: the mon commands issued, what getMgrServices returned (query) and
\* the services whose key its document lacked,
\* the services whose object was read, the writes that succeeded, whether
\* a call failed because ctx was done
NoCyc == [queries |-> 0, query |-> "none", lacking |-> {}, attempted |-> {},
          writes |-> 0, ctxErr |-> FALSE]

stable == settled # <<>>

sliceOf(s) == IF s = "dashboard" THEN cfg.dashboardSlice ELSE cfg.prometheusSlice
Tracked(s) == sliceOf(s) # ""
keyOf(s) == <<cfg.namespace, sliceOf(s)>>

\* tk: whether this tick's loadConfig found no file (absent) and what it
\* returned (new: whether it failed, and the
\* configuration it returned) and what the loop made of
\* it ("err", "same", "changed"), the configuration, period and log level
\* before it, whether ticker.Reset was called, the cycles started on this
\* tick, and the keys the cycle read or wrote
NoTk == [absent |-> FALSE, new |-> <<>>, loaded |-> "none", prev |-> <<>>, reset |-> FALSE,
         runs |-> 0, keys |-> {}]

AuxInit ==
    /\ mainInterval = 0
    /\ period = 0
    /\ logDebug = FALSE
    /\ tk = NoTk
    /\ reloads = 0
    /\ rawURL = EmptyURL
    /\ dnsAnswer = DnsError
    /\ resolved = <<>>

Init ==
    /\ cfg \in Configs
    /\ pc = "validate"
    /\ cur = "none"
    /\ clientset = FALSE
    /\ cancelled = FALSE
    /\ ticker = FALSE
    /\ tick = FALSE
    /\ exitCode = "none"
    /\ services = NoServices
    /\ addr = NoAddr
    /\ runErr = NoErr
    /\ store = [k \in Keys |-> <<>>]
    /\ settled = <<>>
    /\ ext = 0
    /\ EnvOK
    /\ rec = NoRec
    /\ cyc = NoCyc
    /\ AuxInit

(***************************************************************************)
(* main: start-up.                                                         *)
(***************************************************************************)
Exit(code) ==
    /\ pc' = "exited"
    /\ exitCode' = code

\* main.go 66-69: a slice name without a parent service name is fatal
Validate ==
    /\ pc = "validate"
    /\ IF (cfg.dashboardSlice # "" \/ cfg.prometheusSlice # "") /\ cfg.serviceName = ""
         THEN Exit(1)
         ELSE pc' = "connectCeph" /\ UNCHANGED exitCode
    /\ UNCHANGED <<cfg, cur, clientset, cancelled, ticker, tick, services, addr, runErr,
                   store, settled, ext, rec, cyc>>
    /\ UNCHANGED aux

\* main.go 71-86: rados.NewConn, ReadDefaultConfigFile, Connect
ConnectCeph ==
    /\ pc = "connectCeph"
    /\ \E ok \in BOOLEAN :
         IF ok THEN pc' = "connectKube" /\ UNCHANGED exitCode
         ELSE Exit(1)
    /\ UNCHANGED <<cfg, cur, clientset, cancelled, ticker, tick, services, addr, runErr,
                   store, settled, ext, rec, cyc>>
    /\ UNCHANGED aux

\* main.go 88-100: getKubeClient when a slice is configured, NotifyContext,
\* and the call of the first run
ConnectKube ==
    /\ pc = "connectKube"
    /\ IF cfg.dashboardSlice # "" \/ cfg.prometheusSlice # ""
         THEN \E ok \in BOOLEAN :
                IF ok THEN /\ clientset' = TRUE
                           /\ pc' = "query"
                           /\ UNCHANGED exitCode
                ELSE Exit(1) /\ UNCHANGED clientset
         ELSE /\ pc' = "query"
              /\ UNCHANGED <<clientset, exitCode>>
    /\ UNCHANGED <<cfg, cur, cancelled, ticker, tick, services, addr, runErr,
                   store, settled, ext, rec, cyc>>
    /\ UNCHANGED aux

(***************************************************************************)
(* run: one cycle.                                                         *)
(***************************************************************************)
\* calls to the outside may fail until the environment has settled
Failures == IF stable THEN {FALSE} ELSE BOOLEAN

\* run returns err to main
Return(err) ==
    /\ pc' = "returned"
    /\ runErr' = err

Query_UntrackedFirst ==
    /\ pc = "query"
    /\ \E monFails \in Failures,
          resp \in (IF stable THEN {Reported(settled[1].services)} ELSE MgrResponses) :
         LET r == getMgrServices(monFails, resp)
             c == [cyc EXCEPT !.queries = @ + 1, !.query = r.err]
         IN  IF cfg.dashboardSlice = "" /\ cfg.prometheusSlice = ""
               THEN /\ Return(NoErr)
                    /\ cyc' = [c EXCEPT !.lacking = Lacking(resp)]
                    /\ services' = r.services
                    /\ UNCHANGED cur
             ELSE IF r.err # "nil"
               THEN /\ Return(Err("mgr services", "none"))
                    /\ cyc' = c
                    /\ UNCHANGED <<services, cur>>
               ELSE /\ services' = r.services
                    /\ cyc' = [c EXCEPT !.lacking = Lacking(resp)]
                    /\ pc' = "build"
                    /\ cur' = IF cfg.dashboardSlice # "" THEN "dashboard" ELSE "prometheus"
                    /\ UNCHANGED runErr
    /\ UNCHANGED <<cfg, clientset, cancelled, ticker, tick, exitCode, addr,
                   store, settled, ext, rec>>
    /\ UNCHANGED aux

\* main.go 127-141: getMgrServices, and the early return when nothing is tracked
Query ==
    /\ pc = "query"
    /\ \E monFails \in Failures,
          resp \in (IF stable THEN {Reported(settled[1].services)} ELSE MgrResponses) :
         LET r == getMgrServices(monFails, resp)
             c == [cyc EXCEPT !.queries = @ + 1, !.query = r.err]
         IN  IF r.err # "nil"
               THEN /\ Return(Err("mgr services", "none"))
                    /\ cyc' = c
                    /\ UNCHANGED <<services, cur>>
               ELSE /\ services' = r.services
                    /\ cyc' = [c EXCEPT !.lacking = Lacking(resp)]
                    /\ IF cfg.dashboardSlice = "" /\ cfg.prometheusSlice = ""
                         THEN Return(NoErr) /\ UNCHANGED cur
                         ELSE /\ pc' = "build"
                              /\ cur' = IF cfg.dashboardSlice # "" THEN "dashboard" ELSE "prometheus"
                              /\ UNCHANGED runErr
    /\ UNCHANGED <<cfg, clientset, cancelled, ticker, tick, exitCode, addr,
                   store, settled, ext, rec>>
    /\ UNCHANGED aux

Build_AbsentIsSuccess ==
    /\ pc = "build"
    /\ \E lookup \in (IF stable THEN {settled[1].dns} ELSE DnsAnswers) :
       LET parsed == parseServiceURL(services[cur], lookup)
       IN  IF services[cur] = EmptyURL
             THEN Return(NoErr) /\ UNCHANGED <<addr, rec>>
           ELSE IF parsed.err # "nil"
             THEN Return(Err("parse", cur)) /\ UNCHANGED <<addr, rec>>
           ELSE /\ addr' = parsed.addr
                /\ rec' = [NoRec EXCEPT !.svc = cur]
                /\ pc' = "get"
                /\ UNCHANGED runErr
    /\ UNCHANGED <<cfg, cur, clientset, cancelled, ticker, tick, exitCode, services,
                   store, settled, ext, cyc>>
    /\ UNCHANGED aux

\* main.go 143-150 and 156-163: the URL of a tracked service must be present
\* and must resolve
Build ==
    /\ pc = "build"
    /\ \E lookup \in (IF stable THEN {settled[1].dns} ELSE DnsAnswers) :
       LET parsed == parseServiceURL(services[cur], lookup)
       IN  IF services[cur] = EmptyURL
             THEN Return(Err("not found", cur)) /\ UNCHANGED <<addr, rec>>
           ELSE IF parsed.err # "nil"
             THEN Return(Err("parse", cur)) /\ UNCHANGED <<addr, rec>>
           ELSE /\ addr' = parsed.addr
                /\ rec' = [NoRec EXCEPT !.svc = cur]
                /\ pc' = "get"
                /\ UNCHANGED runErr
    /\ UNCHANGED <<cfg, cur, clientset, cancelled, ticker, tick, exitCode, services,
                   store, settled, ext, cyc>>
    /\ UNCHANGED aux

Reconciled_PrometheusAlways ==
    IF cur = "dashboard"
      THEN /\ cur' = "prometheus"
           /\ pc' = "build"
           /\ UNCHANGED runErr
      ELSE Return(NoErr) /\ UNCHANGED cur

\* updateEndpointSlice returned nil: run goes on to the next tracked service
Reconciled ==
    IF cur = "dashboard" /\ cfg.prometheusSlice # ""
      THEN /\ cur' = "prometheus"
           /\ pc' = "build"
           /\ UNCHANGED runErr
      ELSE Return(NoErr) /\ UNCHANGED cur

\* updateEndpointSlice returned an error: run returns it
ReconcileFailed ==
    /\ Return(Err("update", cur))
    /\ UNCHANGED cur

\* a call with ctx fails at once when ctx is done
CallFails == IF cancelled THEN {TRUE} ELSE Failures

Get_ErrorIsNotFound ==
    /\ pc = "get"
    /\ LET k == keyOf(cur) IN
       \E fail \in CallFails :
         IF fail
           THEN /\ rec' = [rec EXCEPT !.gets = @ + 1, !.got = "err"]
                /\ cyc' = [cyc EXCEPT !.attempted = @ \cup {cur}, !.ctxErr = @ \/ cancelled]
                /\ pc' = "update"
                /\ UNCHANGED <<cur, runErr>>
         ELSE IF store[k] = <<>>
           THEN /\ rec' = [rec EXCEPT !.gets = @ + 1, !.got = "notfound"]
                /\ cyc' = [cyc EXCEPT !.attempted = @ \cup {cur}]
                /\ pc' = "update"
                /\ UNCHANGED <<cur, runErr>>
         ELSE IF endpointSliceMatches(store[k][1], cfg.serviceName, cur, addr)
           THEN /\ rec' = [rec EXCEPT !.gets = @ + 1, !.got = "found", !.obj = store[k], !.result = "ok"]
                /\ cyc' = [cyc EXCEPT !.attempted = @ \cup {cur}]
                /\ Reconciled
         ELSE /\ rec' = [rec EXCEPT !.gets = @ + 1, !.got = "found", !.obj = store[k]]
              /\ cyc' = [cyc EXCEPT !.attempted = @ \cup {cur}]
              /\ pc' = "update"
              /\ UNCHANGED <<cur, runErr>>
    /\ UNCHANGED <<cfg, clientset, cancelled, ticker, tick, exitCode, services, addr,
                   store, settled, ext>>
    /\ UNCHANGED aux

\* main.go 282-291: Get, and the comparison of what it returned
Get ==
    /\ pc = "get"
    /\ LET k == keyOf(cur) IN
       \E fail \in CallFails :
         IF fail
           THEN /\ rec' = [rec EXCEPT !.gets = @ + 1, !.got = "err", !.failed = TRUE, !.result = "err"]
                /\ cyc' = [cyc EXCEPT !.attempted = @ \cup {cur}, !.ctxErr = @ \/ cancelled]
                /\ ReconcileFailed
         ELSE IF store[k] = <<>>
           THEN /\ rec' = [rec EXCEPT !.gets = @ + 1, !.got = "notfound"]
                /\ cyc' = [cyc EXCEPT !.attempted = @ \cup {cur}]
                /\ pc' = "update"
                /\ UNCHANGED <<cur, runErr>>
         ELSE IF endpointSliceMatches(store[k][1], cfg.serviceName, cur, addr)
           THEN /\ rec' = [rec EXCEPT !.gets = @ + 1, !.got = "found", !.obj = store[k], !.result = "ok"]
                /\ cyc' = [cyc EXCEPT !.attempted = @ \cup {cur}]
                /\ Reconciled
         ELSE /\ rec' = [rec EXCEPT !.gets = @ + 1, !.got = "found", !.obj = store[k]]
              /\ cyc' = [cyc EXCEPT !.attempted = @ \cup {cur}]
              /\ pc' = "update"
              /\ UNCHANGED <<cur, runErr>>
    /\ UNCHANGED <<cfg, clientset, cancelled, ticker, tick, exitCode, services, addr,
                   store, settled, ext>>
    /\ UNCHANGED aux

Update_RetriedOnce ==
    /\ pc = "update"
    /\ LET k == keyOf(cur)
           slice == NewSlice(cfg.serviceName, cur, addr)
       IN
       \E fail \in CallFails :
         IF fail /\ rec.updates = 0
           THEN /\ rec' = [rec EXCEPT !.updates = @ + 1]
                /\ UNCHANGED <<pc, cur, runErr, store, cyc>>
         ELSE IF fail
           THEN /\ rec' = [rec EXCEPT !.updates = @ + 1, !.failed = TRUE, !.result = "err"]
                /\ cyc' = [cyc EXCEPT !.ctxErr = @ \/ cancelled]
                /\ ReconcileFailed
                /\ UNCHANGED store
         ELSE IF store[k] = <<>>
           THEN /\ rec' = [rec EXCEPT !.updates = @ + 1]
                /\ pc' = "create"
                /\ UNCHANGED <<cur, runErr, store, cyc>>
         ELSE /\ store' = [store EXCEPT ![k] = <<slice>>]
              /\ rec' = [rec EXCEPT !.updates = @ + 1, !.wrote = <<slice>>, !.result = "ok"]
              /\ cyc' = [cyc EXCEPT !.writes = @ + 1]
              /\ Reconciled
    /\ UNCHANGED <<cfg, clientset, cancelled, ticker, tick, exitCode, services, addr,
                   settled, ext>>
    /\ UNCHANGED aux

\* main.go 293-319 and 327-331: build the object and Update it
Update ==
    /\ pc = "update"
    /\ LET k == keyOf(cur)
           slice == NewSlice(cfg.serviceName, cur, addr)
       IN
       \E fail \in CallFails :
         IF fail
           THEN /\ rec' = [rec EXCEPT !.updates = @ + 1, !.failed = TRUE, !.result = "err"]
                /\ cyc' = [cyc EXCEPT !.ctxErr = @ \/ cancelled]
                /\ ReconcileFailed
                /\ UNCHANGED store
         ELSE IF store[k] = <<>>
           THEN /\ rec' = [rec EXCEPT !.updates = @ + 1]
                /\ pc' = "create"
                /\ UNCHANGED <<cur, runErr, store, cyc>>
         ELSE /\ store' = [store EXCEPT ![k] = <<slice>>]
              /\ rec' = [rec EXCEPT !.updates = @ + 1, !.wrote = <<slice>>, !.result = "ok"]
              /\ cyc' = [cyc EXCEPT !.writes = @ + 1]
              /\ Reconciled
    /\ UNCHANGED <<cfg, clientset, cancelled, ticker, tick, exitCode, services, addr,
                   settled, ext>>
    /\ UNCHANGED aux

Create_ExistsIsSuccess ==
    /\ pc = "create"
    /\ LET k == keyOf(cur)
           slice == NewSlice(cfg.serviceName, cur, addr)
       IN
       \E fail \in CallFails :
         IF fail
           THEN /\ rec' = [rec EXCEPT !.creates = @ + 1, !.failed = TRUE, !.result = "err"]
                /\ cyc' = [cyc EXCEPT !.ctxErr = @ \/ cancelled]
                /\ ReconcileFailed
                /\ UNCHANGED store
         ELSE IF store[k] # <<>>
           THEN /\ rec' = [rec EXCEPT !.creates = @ + 1, !.result = "ok"]
                /\ Reconciled
                /\ UNCHANGED <<store, cyc>>
         ELSE /\ store' = [store EXCEPT ![k] = <<slice>>]
              /\ rec' = [rec EXCEPT !.creates = @ + 1, !.wrote = <<slice>>, !.result = "ok"]
              /\ cyc' = [cyc EXCEPT !.writes = @ + 1]
              /\ Reconciled
    /\ UNCHANGED <<cfg, clientset, cancelled, ticker, tick, exitCode, services, addr,
                   settled, ext>>
    /\ UNCHANGED aux

\* main.go 319-326: Update said not found, so Create
Create ==
    /\ pc = "create"
    /\ LET k == keyOf(cur)
           slice == NewSlice(cfg.serviceName, cur, addr)
       IN
       \E fail \in CallFails :
         IF fail \/ store[k] # <<>>
           THEN /\ rec' = [rec EXCEPT !.creates = @ + 1, !.failed = TRUE, !.result = "err"]
                /\ cyc' = [cyc EXCEPT !.ctxErr = @ \/ cancelled]
                /\ ReconcileFailed
                /\ UNCHANGED store
         ELSE /\ store' = [store EXCEPT ![k] = <<slice>>]
              /\ rec' = [rec EXCEPT !.creates = @ + 1, !.wrote = <<slice>>, !.result = "ok"]
              /\ cyc' = [cyc EXCEPT !.writes = @ + 1]
              /\ Reconciled
    /\ UNCHANGED <<cfg, clientset, cancelled, ticker, tick, exitCode, services, addr,
                   settled, ext>>
    /\ UNCHANGED aux

(***************************************************************************)
(* main: after run, and the loop.                                          *)
(***************************************************************************)
\* main.go 100-109: what main does with the result of the first run
AfterFirstRun_ExitOnError(err, interval) ==
    IF err # NoErr THEN "exit 1"
    ELSE IF interval = 0 THEN "exit 0"
    ELSE "loop"

AfterFirstRun_ErrorIgnored(err, interval) ==
    IF interval = 0 THEN "exit 0" ELSE "loop"

AfterFirstRun(err, interval) ==
    IF err # NoErr /\ interval = 0 THEN "exit 1"
    ELSE IF interval = 0 THEN "exit 0"
    ELSE "loop"

\* main.go 100-112 (the first run) and 119-121 (a run of the loop); the
\* locals of run are gone.  time.NewTicker(d) panics when d <= 0, and a
\* panic ends the process with status 2.
RunReturn ==
    /\ pc = "returned"
    /\ IF ~ticker
         THEN LET todo == AfterFirstRun(runErr, cfg.interval)
              IN  IF todo = "exit 1" THEN Exit(1) /\ UNCHANGED ticker
                  ELSE IF todo = "exit 0" THEN Exit(0) /\ UNCHANGED ticker
                  ELSE IF cfg.interval < 0 THEN Exit(2) /\ UNCHANGED ticker
                  ELSE /\ ticker' = TRUE
                       /\ pc' = "select"
                       /\ UNCHANGED exitCode
         ELSE /\ pc' = "select"
              /\ UNCHANGED <<ticker, exitCode>>
    /\ cur' = "none"
    /\ services' = NoServices
    /\ addr' = NoAddr
    /\ rec' = NoRec
    /\ cyc' = NoCyc
    /\ UNCHANGED <<cfg, clientset, cancelled, tick, runErr, store, settled, ext>>
    /\ UNCHANGED aux

SelectDone_ExitsWithError ==
    /\ pc = "select"
    /\ cancelled
    /\ Exit(IF runErr # NoErr THEN 1 ELSE 0)
    /\ UNCHANGED <<cfg, cur, clientset, cancelled, ticker, tick, services, addr, runErr,
                   store, settled, ext, rec, cyc>>
    /\ UNCHANGED aux

\* main.go 116-117: case <-ctx.Done(): return
SelectDone ==
    /\ pc = "select"
    /\ cancelled
    /\ Exit(0)
    /\ UNCHANGED <<cfg, cur, clientset, cancelled, ticker, tick, services, addr, runErr,
                   store, settled, ext, rec, cyc>>
    /\ UNCHANGED aux

\* main.go 118-119: case <-ticker.C, and the call of run
SelectTick ==
    /\ pc = "select"
    /\ tick
    /\ tick' = FALSE
    /\ pc' = "query"
    /\ runErr' = NoErr
    /\ UNCHANGED <<cfg, cur, clientset, cancelled, ticker, exitCode, services, addr,
                   store, settled, ext, rec, cyc>>
    /\ UNCHANGED aux

(***************************************************************************)
(* The environment.                                                        *)
(***************************************************************************)
Running == pc \notin {"validate", "connectCeph", "connectKube", "exited"}

\* the ticker sends on ticker.C (capacity 1; a tick nobody took is dropped)
TimerFire ==
    /\ ticker
    /\ pc # "exited"
    /\ ~tick
    /\ tick' = TRUE
    /\ UNCHANGED <<cfg, pc, cur, clientset, cancelled, ticker, exitCode, services, addr,
                   runErr, store, settled, ext, rec, cyc>>
    /\ UNCHANGED aux

\* SIGINT or SIGTERM after signal.NotifyContext (main.go 97)
Signal ==
    /\ Running
    /\ ~stable
    /\ ~cancelled
    /\ cancelled' = TRUE
    /\ UNCHANGED <<cfg, pc, cur, clientset, ticker, tick, exitCode, services, addr,
                   runErr, store, settled, ext, rec, cyc>>
    /\ UNCHANGED aux

\* other clients of the API server write while the controller runs, until
\* the environment has settled
MayWrite ==
    /\ Running
    /\ ~stable
    /\ ext < MaxExternal

\* another client of the API server creates, replaces or deletes a slice
OtherWriter(objects) ==
    /\ \E k \in Keys, v \in {<<>>} \cup {<<o>> : o \in objects} :
         /\ v # store[k]
         /\ store' = [store EXCEPT ![k] = v]
         /\ rec' = IF rec.got # "none" /\ k = keyOf(rec.svc)
                     THEN [rec EXCEPT !.ext = TRUE] ELSE rec
    /\ ext' = ext + 1
    /\ UNCHANGED <<cfg, pc, cur, clientset, cancelled, ticker, tick, exitCode, services,
                   addr, runErr, settled, cyc>>
    /\ UNCHANGED aux

ExternalWrite == MayWrite /\ OtherWriter(ExternalObjects)

\* the same, writing one foreign object only
ExternalWriteForeign == MayWrite /\ OtherWriter(ForeignObjects)

\* From this answer of the mgr on, the mgr keeps reporting the same URLs,
\* which are present and resolve (the resolver keeps its answer) for every
\* tracked service; calls no longer fail, nobody else writes, no signal
\* arrives.
Stabilize ==
    /\ pc = "build"
    /\ cyc.attempted = {}
    /\ cfg.interval # 0
    /\ ~stable
    /\ ~cancelled
    /\ \E lookup \in DnsAnswers :
         /\ \A s \in Services :
              Tracked(s) => /\ services[s] # EmptyURL
                            /\ parseServiceURL(services[s], lookup).err = "nil"
         /\ settled' = << [services |-> services, dns |-> lookup] >>
    /\ UNCHANGED <<cfg, pc, cur, clientset, cancelled, ticker, tick, exitCode, services,
                   addr, runErr, store, ext, rec, cyc>>
    /\ UNCHANGED aux

Next ==
    \/ Validate
    \/ ConnectCeph
    \/ ConnectKube
    \/ Query
    \/ Build
    \/ Get
    \/ Update
    \/ Create
    \/ RunReturn
    \/ SelectDone
    \/ SelectTick
    \/ TimerFire
    \/ Signal
    \/ ExternalWrite
    \/ Stabilize

Spec == Init /\ [][Next]_vars

(***************************************************************************)
(* Fairness.  The main goroutine keeps running (every call it makes        *)
(* returns), the ticker keeps ticking, and a select with both cases ready  *)
(* picks either at random, so the ctx.Done() case is not passed over       *)
(* forever.                                                                *)
(***************************************************************************)
MainStep ==
    \/ Validate
    \/ ConnectCeph
    \/ ConnectKube
    \/ Query
    \/ Build
    \/ Get
    \/ Update
    \/ Create
    \/ RunReturn
    \/ SelectDone
    \/ SelectTick

LiveNext ==
    \/ MainStep
    \/ TimerFire
    \/ Signal
    \/ ExternalWriteForeign
    \/ Stabilize

LiveSpec ==
    /\ Init
    /\ [][LiveNext]_vars
    /\ WF_vars(MainStep)
    /\ WF_vars(TimerFire)
    /\ SF_vars(SelectDone)

(***************************************************************************)
(* Start-up with the interval as the environment gives it.  The package    *)
(* variable interval is set by getEnvDuration("CEPH_MGR_INTERVAL") before  *)
(* main runs; the rest is main as above, without other writers.            *)
(***************************************************************************)
\* values of CEPH_MGR_INTERVAL
EnvIntervals == {"", "0s", "30s", "60s", "-5s", "soon"}

\* time.ParseDuration on the interval strings of the model, in seconds
ParseDuration(s) ==
    IF s = "0s" THEN [err |-> FALSE, d |-> 0]
    ELSE IF s = "30s" THEN [err |-> FALSE, d |-> 30]
    ELSE IF s = "60s" THEN [err |-> FALSE, d |-> 60]
    ELSE IF s = "-5s" THEN [err |-> FALSE, d |-> -5]
    ELSE [err |-> TRUE, d |-> 0]

\* main.go 38-49: "" is 0, a string that does not parse exits with status
\* 1, anything else is taken as it is
getEnvDuration(value) ==
    IF value = "" THEN [exit |-> FALSE, d |-> 0]
    ELSE IF ParseDuration(value).err THEN [exit |-> TRUE, d |-> 0]
    ELSE [exit |-> FALSE, d |-> ParseDuration(value).d]

StartInit ==
    /\ \E value \in EnvIntervals, c \in Configs :
         LET r == getEnvDuration(value) IN
         /\ cfg = [c EXCEPT !.interval = r.d]
         /\ pc = IF r.exit THEN "exited" ELSE "validate"
         /\ exitCode = IF r.exit THEN 1 ELSE "none"
    /\ cur = "none"
    /\ clientset = FALSE
    /\ cancelled = FALSE
    /\ ticker = FALSE
    /\ tick = FALSE
    /\ services = NoServices
    /\ addr = NoAddr
    /\ runErr = NoErr
    /\ store = [k \in Keys |-> <<>>]
    /\ settled = <<>>
    /\ ext = 0
    /\ EnvOK
    /\ rec = NoRec
    /\ cyc = NoCyc
    /\ AuxInit

StartNext ==
    \/ Validate
    \/ ConnectCeph
    \/ ConnectKube
    \/ Query
    \/ Build
    \/ Get
    \/ Update
    \/ Create
    \/ RunReturn
    \/ SelectDone
    \/ SelectTick
    \/ TimerFire
    \/ Signal

StartSpec == StartInit /\ [][StartNext]_vars

(***************************************************************************)
(* The reloading main (the main.go listed in README.md): the configuration *)
(* is a JSON file, read by loadConfig at start-up and again on every tick  *)
(* of the loop.  run, getMgrServices, SelectDone and the ticker are as     *)
(* above; parseServiceURL takes IP literals only, and updateEndpointSlice  *)
(* writes with a server-side Apply.                                        *)
(***************************************************************************)
\* reloads that change the configuration in one behaviour
MaxReloads == 1

\* a nil *bool is "nil"
RawConfig(debug, ivl, ns, svc, dash, prom) ==
    [Debug |-> debug, Interval |-> ivl, Namespace |-> ns, ServiceName |-> svc,
     DashboardSlice |-> dash, PrometheusSlice |-> prom]
ZeroRaw == RawConfig("nil", "", "", "", "", "")
BaseRaw == RawConfig("nil", "30s", "ceph", "ceph-mgr", "slice-a", "slice-b")

\* contents of the file that decode
RawConfigs ==
    {BaseRaw,
     ZeroRaw,
     [ZeroRaw EXCEPT !.Interval = "30s"],
     [BaseRaw EXCEPT !.Interval = "60s"],
     [BaseRaw EXCEPT !.Interval = ""],
     [BaseRaw EXCEPT !.Interval = "0s"],
     [BaseRaw EXCEPT !.Interval = "-5s"],
     [BaseRaw EXCEPT !.Interval = "soon"],
     [BaseRaw EXCEPT !.Debug = "true"],
     [BaseRaw EXCEPT !.Debug = "false"],
     [BaseRaw EXCEPT !.Namespace = "rook"],
     [BaseRaw EXCEPT !.Namespace = ""],
     [BaseRaw EXCEPT !.ServiceName = "mgr2"],
     [BaseRaw EXCEPT !.ServiceName = ""],
     [BaseRaw EXCEPT !.DashboardSlice = "slice-c"],
     [BaseRaw EXCEPT !.PrometheusSlice = ""],
     [BaseRaw EXCEPT !.Interval = "60s", !.Namespace = "rook"]}

\* the file: absent, not openable, not JSON, or JSON
ConfigFile(state, raw) == [state |-> state, raw |-> raw]
ConfigFiles ==
    {ConfigFile("absent", ZeroRaw), ConfigFile("unreadable", ZeroRaw),
     ConfigFile("garbage", ZeroRaw)}
      \cup {ConfigFile("json", r) : r \in RawConfigs}

ReloadKeys == {"ceph", "rook"} \X {"slice-a", "slice-b", "slice-c"}

\* config{}
EmptyConfig ==
    [debug |-> FALSE, interval |-> 0, namespace |-> "", serviceName |-> "",
     dashboardSlice |-> "", prometheusSlice |-> ""]
LoadErr(e) == [err |-> e, cfg |-> EmptyConfig]

loadConfig_NamespaceUnchecked(file) ==
    IF file.state = "absent" THEN [err |-> "nil", cfg |-> EmptyConfig]
    ELSE IF file.state = "unreadable" THEN LoadErr("open config file")
    ELSE IF file.state = "garbage" THEN LoadErr("decode config file")
    ELSE
      LET raw == file.raw
          dur == ParseDuration(raw.Interval)
          named == raw.DashboardSlice # "" \/ raw.PrometheusSlice # ""
      IN  IF raw.Interval # "" /\ dur.err THEN LoadErr("invalid duration in config")
          ELSE IF raw.Interval # "" /\ dur.d < 0 THEN LoadErr("interval must be positive")
          ELSE IF named /\ raw.ServiceName = "" THEN LoadErr("service name is required")
          ELSE [err |-> "nil",
                cfg |-> [debug |-> raw.Debug = "true",
                         interval |-> IF raw.Interval # "" THEN dur.d ELSE 0,
                         namespace |-> raw.Namespace,
                         serviceName |-> raw.ServiceName,
                         dashboardSlice |-> raw.DashboardSlice,
                         prometheusSlice |-> raw.PrometheusSlice]]

\* loadConfig on the file as it is when it is read
loadConfig(file) ==
    IF file.state = "absent" THEN [err |-> "nil", cfg |-> EmptyConfig]
    ELSE IF file.state = "unreadable" THEN LoadErr("open config file")
    ELSE IF file.state = "garbage" THEN LoadErr("decode config file")
    ELSE
      LET raw == file.raw
          dur == ParseDuration(raw.Interval)
          named == raw.DashboardSlice # "" \/ raw.PrometheusSlice # ""
      IN  IF raw.Interval # "" /\ dur.err THEN LoadErr("invalid duration in config")
          ELSE IF raw.Interval # "" /\ dur.d < 0 THEN LoadErr("interval must be positive")
          ELSE IF named /\ raw.Namespace = "" THEN LoadErr("namespace is required")
          ELSE IF named /\ raw.ServiceName = "" THEN LoadErr("service name is required")
          ELSE [err |-> "nil",
                cfg |-> [debug |-> raw.Debug = "true",
                         interval |-> IF raw.Interval # "" THEN dur.d ELSE 0,
                         namespace |-> raw.Namespace,
                         serviceName |-> raw.ServiceName,
                         dashboardSlice |-> raw.DashboardSlice,
                         prometheusSlice |-> raw.PrometheusSlice]]

\* parseServiceURL of README.md: the port must lie in 1..65535 and the host
\* must be an IP literal
parseServiceURLStrict(u) ==
    IF u.err THEN ParseErr("parse URL")
    ELSE
      LET portStr == IF u.port # <<>> THEN u.port
                     ELSE IF u.scheme = "https" THEN <<4, 4, 3>>
                     ELSE IF u.scheme = "http" THEN <<8, 0>>
                     ELSE <<>>
      IN  IF u.port = <<>> /\ u.scheme \notin {"https", "http"}
            THEN ParseErr("no port specified and unknown scheme")
          ELSE
            LET port == Atoi(portStr)
                ip == ParseIP(u.host)
            IN  IF port.err THEN ParseErr("invalid port")
                ELSE IF port.n = <<>> \/ ~DigitsLeq(port.n, <<6, 5, 5, 3, 5>>)
                  THEN ParseErr("port out of range")
                ELSE IF ip = Nil THEN ParseErr("expected IP address, got hostname")
                ELSE [err |-> "nil", addr |-> [IP |-> ip, Port |-> Int32(port.n)]]

\* the object updateEndpointSlice applies; owner: it carries the owner
\* reference to the parent Service
AppliedSlice(serviceName, portName, a, owner) ==
    [label |-> serviceName,
     extraLabel |-> FALSE,
     addressType |-> "IPv4",
     endpoints |-> << <<a.IP>> >>,
     ports |-> << EndpointPort(portName, a.Port, "TCP") >>,
     owner |-> owner]

ReloadInit ==
    /\ cfg = EmptyConfig
    /\ pc = "loadConfig"
    /\ cur = "none"
    /\ clientset = FALSE
    /\ cancelled = FALSE
    /\ ticker = FALSE
    /\ tick = FALSE
    /\ exitCode = "none"
    /\ services = NoServices
    /\ addr = NoAddr
    /\ runErr = NoErr
    /\ store = [k \in ReloadKeys |-> <<>>]
    /\ settled = <<>>
    /\ ext = 0
    /\ EnvOK
    /\ rec = NoRec
    /\ cyc = NoCyc
    /\ AuxInit

\* README.md 153-167: the first loadConfig, the log level, main's interval
LoadConfig ==
    /\ pc = "loadConfig"
    /\ \E f \in ConfigFiles :
         LET r == loadConfig(f) IN
         IF r.err # "nil"
           THEN Exit(1) /\ UNCHANGED <<cfg, logDebug, mainInterval>>
           ELSE /\ cfg' = r.cfg
                /\ logDebug' = r.cfg.debug
                /\ mainInterval' = r.cfg.interval
                /\ pc' = "connect"
                /\ UNCHANGED exitCode
    /\ UNCHANGED <<cur, clientset, cancelled, ticker, tick, services, addr, runErr,
                   store, settled, ext, rec, cyc, period, tk, reloads, rawURL,
                   dnsAnswer, resolved>>

\* README.md 169-210: the rados connection, getKubeClient when a slice is
\* configured, and the call of the first run
Connect ==
    /\ pc = "connect"
    /\ \E ceph \in BOOLEAN, kube \in BOOLEAN :
         IF ~ceph THEN Exit(1) /\ UNCHANGED clientset
         ELSE IF cfg.dashboardSlice # "" \/ cfg.prometheusSlice # ""
           THEN IF kube THEN /\ clientset' = TRUE
                             /\ pc' = "query"
                             /\ UNCHANGED exitCode
                ELSE Exit(1) /\ UNCHANGED clientset
         ELSE /\ pc' = "query"
              /\ UNCHANGED <<clientset, exitCode>>
    /\ UNCHANGED <<cfg, cur, cancelled, ticker, tick, services, addr, runErr,
                   store, settled, ext, rec, cyc, aux>>

\* README.md 391-398 and 404-411
BuildStrict ==
    /\ pc = "build"
    /\ LET res == parseServiceURLStrict(services[cur])
       IN  IF services[cur] = EmptyURL
             THEN Return(Err("not found", cur)) /\ UNCHANGED <<addr, rec>>
           ELSE IF res.err # "nil"
             THEN Return(Err("parse", cur)) /\ UNCHANGED <<addr, rec>>
           ELSE /\ addr' = res.addr
                /\ rec' = [NoRec EXCEPT !.svc = cur]
                /\ pc' = "get"
                /\ UNCHANGED runErr
    /\ UNCHANGED <<cfg, cur, clientset, cancelled, ticker, tick, exitCode, services,
                   store, settled, ext, cyc, aux>>

\* README.md 513-522: clientset.DiscoveryV1() on a nil *Clientset is a nil
\* pointer dereference, the process dies with status 2; otherwise Get and
\* the comparison of what it returned
GetSlice ==
    /\ pc = "get"
    /\ LET k == keyOf(cur) IN
       IF ~clientset
         THEN /\ Exit(2)
              /\ UNCHANGED <<cur, runErr, rec, cyc, tk>>
         ELSE
           /\ tk' = [tk EXCEPT !.keys = @ \cup {k}]
           /\ cyc' = [cyc EXCEPT !.attempted = @ \cup {cur}, !.ctxErr = @ \/ cancelled]
           /\ UNCHANGED exitCode
           /\ \E fail \in CallFails :
                IF fail
                  THEN /\ rec' = [rec EXCEPT !.gets = @ + 1, !.got = "err", !.failed = TRUE, !.result = "err"]
                       /\ ReconcileFailed
                ELSE IF store[k] = <<>>
                  THEN /\ rec' = [rec EXCEPT !.gets = @ + 1, !.got = "notfound"]
                       /\ pc' = "apply"
                       /\ UNCHANGED <<cur, runErr>>
                ELSE IF endpointSliceMatches(store[k][1], cfg.serviceName, cur, addr)
                  THEN /\ rec' = [rec EXCEPT !.gets = @ + 1, !.got = "found", !.obj = store[k], !.result = "ok"]
                       /\ Reconciled
                ELSE /\ rec' = [rec EXCEPT !.gets = @ + 1, !.got = "found", !.obj = store[k]]
                     /\ pc' = "apply"
                     /\ UNCHANGED <<cur, runErr>>
    /\ UNCHANGED <<cfg, clientset, cancelled, ticker, tick, services, addr,
                   store, settled, ext, mainInterval, period, logDebug, reloads,
                   rawURL, dnsAnswer, resolved>>

ApplySlice_OwnerRequired ==
    /\ pc = "apply"
    /\ LET k == keyOf(cur) IN
       \E owner \in (IF cancelled THEN {FALSE} ELSE BOOLEAN), fail \in CallFails :
         LET slice == AppliedSlice(cfg.serviceName, cur, addr, owner) IN
         IF ~owner
           THEN /\ rec' = [rec EXCEPT !.failed = TRUE, !.result = "err", !.ownerGet = "err"]
                /\ cyc' = [cyc EXCEPT !.ctxErr = @ \/ cancelled]
                /\ ReconcileFailed
                /\ UNCHANGED store
         ELSE IF fail
           THEN /\ rec' = [rec EXCEPT !.applies = @ + 1, !.failed = TRUE, !.result = "err",
                                       !.ownerGet = "ok"]
                /\ cyc' = [cyc EXCEPT !.ctxErr = @ \/ cancelled]
                /\ ReconcileFailed
                /\ UNCHANGED store
           ELSE /\ store' = [store EXCEPT ![k] = <<slice>>]
                /\ rec' = [rec EXCEPT !.applies = @ + 1, !.wrote = <<slice>>, !.result = "ok",
                                       !.ownerGet = "ok"]
                /\ cyc' = [cyc EXCEPT !.writes = @ + 1]
                /\ Reconciled
    /\ tk' = [tk EXCEPT !.keys = @ \cup {keyOf(cur)}]
    /\ UNCHANGED <<cfg, clientset, cancelled, ticker, tick, exitCode, services, addr,
                   settled, ext, mainInterval, period, logDebug, reloads,
                   rawURL, dnsAnswer, resolved>>

\* README.md 524-558: the Get of the parent Service for the owner reference
\* (its failure is only logged), and the Apply
ApplySlice ==
    /\ pc = "apply"
    /\ LET k == keyOf(cur) IN
       \E owner \in (IF cancelled THEN {FALSE} ELSE BOOLEAN), fail \in CallFails :
         LET slice == AppliedSlice(cfg.serviceName, cur, addr, owner) IN
         IF fail
           THEN /\ rec' = [rec EXCEPT !.applies = @ + 1, !.failed = TRUE, !.result = "err",
                                       !.ownerGet = IF owner THEN "ok" ELSE "err"]
                /\ cyc' = [cyc EXCEPT !.ctxErr = @ \/ cancelled]
                /\ ReconcileFailed
                /\ UNCHANGED store
           ELSE /\ store' = [store EXCEPT ![k] = <<slice>>]
                /\ rec' = [rec EXCEPT !.applies = @ + 1, !.wrote = <<slice>>, !.result = "ok",
                                       !.ownerGet = IF owner THEN "ok" ELSE "err"]
                /\ cyc' = [cyc EXCEPT !.writes = @ + 1]
                /\ Reconciled
    /\ tk' = [tk EXCEPT !.keys = @ \cup {keyOf(cur)}]
    /\ UNCHANGED <<cfg, clientset, cancelled, ticker, tick, exitCode, services, addr,
                   settled, ext, mainInterval, period, logDebug, reloads,
                   rawURL, dnsAnswer, resolved>>

\* README.md 210-222 (the first run: exit, return, or time.NewTicker(interval))
\* and 254-256 (a run of the loop)
RunReturnReload ==
    /\ pc = "returned"
    /\ IF ~ticker
         THEN LET todo == AfterFirstRun(runErr, mainInterval)
              IN  IF todo = "exit 1" THEN Exit(1) /\ UNCHANGED <<ticker, period>>
                  ELSE IF todo = "exit 0" THEN Exit(0) /\ UNCHANGED <<ticker, period>>
                  ELSE /\ ticker' = TRUE
                       /\ period' = mainInterval
                       /\ pc' = "select"
                       /\ UNCHANGED exitCode
         ELSE /\ pc' = "select"
              /\ UNCHANGED <<ticker, period, exitCode>>
    /\ cur' = "none"
    /\ services' = NoServices
    /\ addr' = NoAddr
    /\ rec' = NoRec
    /\ cyc' = NoCyc
    /\ UNCHANGED <<cfg, clientset, cancelled, tick, runErr, store, settled, ext,
                   mainInterval, logDebug, tk, reloads, rawURL, dnsAnswer, resolved>>

ReloadStep_ErrorIgnored(c, lg, per, ivl, r) ==
    IF r.cfg = c
      THEN [loaded |-> IF r.err # "nil" THEN "err" ELSE "same", cfg |-> c,
            logDebug |-> lg, period |-> per, interval |-> ivl, reset |-> FALSE,
            todo |-> "run"]
    ELSE
      LET n == r.cfg
          lg2 == IF n.debug # c.debug THEN n.debug ELSE lg
          ld == IF r.err # "nil" THEN "err" ELSE "changed"
      IN  IF n.interval # c.interval
            THEN IF n.interval = 0
                   THEN [loaded |-> ld, cfg |-> c, logDebug |-> lg2, period |-> per,
                         interval |-> n.interval, reset |-> FALSE, todo |-> "return"]
                   ELSE [loaded |-> ld, cfg |-> n, logDebug |-> lg2,
                         period |-> n.interval, interval |-> n.interval,
                         reset |-> TRUE, todo |-> "run"]
            ELSE [loaded |-> ld, cfg |-> n, logDebug |-> lg2, period |-> per,
                  interval |-> ivl, reset |-> FALSE, todo |-> "run"]

ReloadStep_NoReset(c, lg, per, ivl, r) ==
    IF r.err # "nil"
      THEN [loaded |-> "err", cfg |-> c, logDebug |-> lg, period |-> per,
            interval |-> ivl, reset |-> FALSE, todo |-> "run"]
    ELSE IF r.cfg = c
      THEN [loaded |-> "same", cfg |-> c, logDebug |-> lg, period |-> per,
            interval |-> ivl, reset |-> FALSE, todo |-> "run"]
    ELSE
      LET n == r.cfg
          lg2 == IF n.debug # c.debug THEN n.debug ELSE lg
      IN  IF n.interval # c.interval /\ n.interval = 0
            THEN [loaded |-> "changed", cfg |-> c, logDebug |-> lg2, period |-> per,
                  interval |-> n.interval, reset |-> FALSE, todo |-> "return"]
            ELSE [loaded |-> "changed", cfg |-> n, logDebug |-> lg2, period |-> per,
                  interval |-> n.interval, reset |-> FALSE, todo |-> "run"]

ReloadStep_IntervalOnly(c, lg, per, ivl, r) ==
    IF r.err # "nil"
      THEN [loaded |-> "err", cfg |-> c, logDebug |-> lg, period |-> per,
            interval |-> ivl, reset |-> FALSE, todo |-> "run"]
    ELSE IF r.cfg = c
      THEN [loaded |-> "same", cfg |-> c, logDebug |-> lg, period |-> per,
            interval |-> ivl, reset |-> FALSE, todo |-> "run"]
    ELSE
      LET n == r.cfg
          lg2 == IF n.debug # c.debug THEN n.debug ELSE lg
      IN  IF n.interval # c.interval
            THEN IF n.interval = 0
                   THEN [loaded |-> "changed", cfg |-> c, logDebug |-> lg2, period |-> per,
                         interval |-> n.interval, reset |-> FALSE, todo |-> "return"]
                   ELSE [loaded |-> "changed",
                         cfg |-> [EmptyConfig EXCEPT !.interval = n.interval],
                         logDebug |-> lg2, period |-> n.interval,
                         interval |-> n.interval, reset |-> TRUE, todo |-> "run"]
            ELSE [loaded |-> "changed", cfg |-> n, logDebug |-> lg2, period |-> per,
                  interval |-> ivl, reset |-> FALSE, todo |-> "run"]

\* README.md 229-252: what the loop makes of the result r of loadConfig,
\* given the current configuration c, log level lg, ticker period per and
\* interval ivl; todo is "run" (go on to line 254) or "return" (line 246)
ReloadStep(c, lg, per, ivl, r) ==
    IF r.err # "nil"
      THEN [loaded |-> "err", cfg |-> c, logDebug |-> lg, period |-> per,
            interval |-> ivl, reset |-> FALSE, todo |-> "run"]
    ELSE IF r.cfg = c
      THEN [loaded |-> "same", cfg |-> c, logDebug |-> lg, period |-> per,
            interval |-> ivl, reset |-> FALSE, todo |-> "run"]
    ELSE
      LET n == r.cfg
          lg2 == IF n.debug # c.debug THEN n.debug ELSE lg
      IN  IF n.interval # c.interval
            THEN IF n.interval = 0
                   THEN [loaded |-> "changed", cfg |-> c, logDebug |-> lg2, period |-> per,
                         interval |-> n.interval, reset |-> FALSE, todo |-> "return"]
                   ELSE [loaded |-> "changed", cfg |-> n, logDebug |-> lg2,
                         period |-> n.interval, interval |-> n.interval,
                         reset |-> TRUE, todo |-> "run"]
            ELSE [loaded |-> "changed", cfg |-> n, logDebug |-> lg2, period |-> per,
                  interval |-> ivl, reset |-> FALSE, todo |-> "run"]

Reload_WhileReconciling ==
    /\ pc \in {"select", "get"}
    /\ tick
    /\ tick' = FALSE
    /\ runErr' = NoErr
    /\ \E f \in ConfigFiles :
         LET r == loadConfig(f)
             s == ReloadStep(cfg, logDebug, period, mainInterval, r)
         IN  /\ s.loaded = "changed" => reloads < MaxReloads
             /\ reloads' = IF s.loaded = "changed" THEN reloads + 1 ELSE reloads
             /\ cfg' = s.cfg
             /\ logDebug' = s.logDebug
             /\ period' = s.period
             /\ mainInterval' = s.interval
             /\ tk' = [absent |-> f.state = "absent",
                       new |-> <<[failed |-> r.err # "nil", cfg |-> r.cfg]>>,
                       loaded |-> s.loaded,
                       prev |-> <<[cfg |-> cfg, period |-> period, logDebug |-> logDebug]>>,
                       reset |-> s.reset,
                       runs |-> IF s.todo = "run" THEN 1 ELSE 0,
                       keys |-> {}]
             /\ IF s.todo = "return" THEN Exit(0)
                ELSE pc' = "query" /\ UNCHANGED exitCode
    /\ UNCHANGED <<cur, clientset, cancelled, ticker, services, addr, store, settled,
                   ext, rec, cyc, rawURL, dnsAnswer, resolved>>

\* README.md 228-254: case <-ticker.C: reload, then call run
Reload ==
    /\ pc = "select"
    /\ tick
    /\ tick' = FALSE
    /\ runErr' = NoErr
    /\ \E f \in ConfigFiles :
         LET r == loadConfig(f)
             s == ReloadStep(cfg, logDebug, period, mainInterval, r)
         IN  /\ s.loaded = "changed" => reloads < MaxReloads
             /\ reloads' = IF s.loaded = "changed" THEN reloads + 1 ELSE reloads
             /\ cfg' = s.cfg
             /\ logDebug' = s.logDebug
             /\ period' = s.period
             /\ mainInterval' = s.interval
             /\ tk' = [absent |-> f.state = "absent",
                       new |-> <<[failed |-> r.err # "nil", cfg |-> r.cfg]>>,
                       loaded |-> s.loaded,
                       prev |-> <<[cfg |-> cfg, period |-> period, logDebug |-> logDebug]>>,
                       reset |-> s.reset,
                       runs |-> IF s.todo = "run" THEN 1 ELSE 0,
                       keys |-> {}]
             /\ IF s.todo = "return" THEN Exit(0)
                ELSE pc' = "query" /\ UNCHANGED exitCode
    /\ UNCHANGED <<cur, clientset, cancelled, ticker, services, addr, store, settled,
                   ext, rec, cyc, rawURL, dnsAnswer, resolved>>

\* SIGINT or SIGTERM after signal.NotifyContext (README.md 166)
SignalReload ==
    /\ pc \notin {"loadConfig", "exited"}
    /\ ~cancelled
    /\ cancelled' = TRUE
    /\ UNCHANGED <<cfg, pc, cur, clientset, ticker, tick, exitCode, services, addr,
                   runErr, store, settled, ext, rec, cyc, aux>>

ReloadNext ==
    \/ LoadConfig
    \/ Connect
    \/ Query
    \/ BuildStrict
    \/ GetSlice
    \/ ApplySlice
    \/ RunReturnReload
    \/ SelectDone
    \/ Reload
    \/ TimerFire
    \/ SignalReload

ReloadSpec == ReloadInit /\ [][ReloadNext]_vars

(***************************************************************************)
(* parseServiceURL on its own: any URL of ParseURLs, any answer of the     *)
(* resolver.                                                               *)
(***************************************************************************)
\* calls of parseServiceURL in one behaviour
MaxResolves == 2

ParseSchemes == {"", "http", "https", "ftp"}
ParseHosts == {"10.0.0.5", "fd00::7", "mgr.local"}
\* no port, 0, ports of the range and its ends, 65536 and 70000, a port with
\* a leading zero, 2^32 + 80, 3000000000 (negative as an int32), 10^19
ParsePorts ==
    {<<>>, <<0>>, <<1>>, <<8, 0>>, <<0, 8, 0>>, <<4, 4, 3>>, <<8, 4, 4, 3>>,
     <<6, 5, 5, 3, 5>>, <<6, 5, 5, 3, 6>>, <<7, 0, 0, 0, 0>>,
     <<4, 2, 9, 4, 9, 6, 7, 3, 7, 6>>,
     <<3, 0, 0, 0, 0, 0, 0, 0, 0, 0>>,
     <<1, 0, 0, 0, 0, 0, 0, 0, 0, 0, 0, 0, 0, 0, 0, 0, 0, 0, 0, 0>>}
ParseURLs ==
    {MalformedURL} \cup {URL(s, h, p) : s \in ParseSchemes, h \in ParseHosts, p \in ParsePorts}
ParseLookups == DnsAnswers \cup {DnsIPs(<<>>), DnsIPs(<<"fd00::7">>)}

ParseInit ==
    /\ cfg \in {c \in Configs : c.interval = 0 /\ c.serviceName = ""
                                  /\ c.dashboardSlice = "" /\ c.prometheusSlice = ""}
    /\ pc = "parse"
    /\ cur = "none"
    /\ clientset = FALSE
    /\ cancelled = FALSE
    /\ ticker = FALSE
    /\ tick = FALSE
    /\ exitCode = "none"
    /\ services = NoServices
    /\ addr = NoAddr
    /\ runErr = NoErr
    /\ store = [k \in Keys |-> <<>>]
    /\ settled = <<>>
    /\ ext = 0
    /\ rec = NoRec
    /\ cyc = NoCyc
    /\ mainInterval = 0
    /\ period = 0
    /\ logDebug = FALSE
    /\ tk = NoTk
    /\ reloads = 0
    /\ rawURL \in ParseURLs
    /\ dnsAnswer \in ParseLookups
    /\ resolved = <<>>

\* one call of parseServiceURL (main.go 204-253) on the URL; resolved keeps
\* what the calls returned, in their order
Resolve ==
    /\ pc \in {"parse", "parsed"}
    /\ Len(resolved) < MaxResolves
    /\ resolved' = Append(resolved, parseServiceURL(rawURL, dnsAnswer))
    /\ pc' = "parsed"
    /\ UNCHANGED <<cfg, cur, clientset, cancelled, ticker, tick, exitCode, services,
                   addr, runErr, store, settled, ext, rec, cyc, mainInterval, period,
                   logDebug, tk, reloads, rawURL, dnsAnswer>>

\* between two calls the resolver changes its answer for the host
DnsChange ==
    /\ pc = "parsed"
    /\ Len(resolved) < MaxResolves
    /\ \E a \in ParseLookups \ {dnsAnswer} : dnsAnswer' = a
    /\ UNCHANGED <<cfg, pc, cur, clientset, cancelled, ticker, tick, exitCode, services,
                   addr, runErr, store, settled, ext, rec, cyc, mainInterval, period,
                   logDebug, tk, reloads, rawURL, resolved>>

ParseNext ==
    \/ Resolve
    \/ DnsChange

ParseSpec == ParseInit /\ [][ParseNext]_vars

(***************************************************************************)
(* Properties.                                                             *)
(***************************************************************************)
\* The object a PublishIntent asks for: the parent-service label, the address
\* type, one endpoint with the one address, one port entry.
Desired(serviceName, portName, a) ==
    [label |-> serviceName,
     extraLabel |-> FALSE,
     addressType |-> "IPv4",
     endpoints |-> << <<a.IP>> >>,
     ports |-> << [name |-> portName, port |-> a.Port, protocol |-> "TCP"] >>]

\* o agrees with the intent in every compared field
Matching(o, serviceName, portName, a) ==
    /\ o.label = serviceName
    /\ o.addressType = "IPv4"
    /\ o.endpoints = << <<a.IP>> >>
    /\ o.ports = << [name |-> portName, port |-> a.Port, protocol |-> "TCP"] >>

\* the compared fields in which o, an object of the usual shape, differs
DifferingFields(o, serviceName, portName, a) ==
    {f \in {"label", "addressType", "address", "name", "port", "protocol"} :
        \/ f = "label" /\ o.label # serviceName
        \/ f = "addressType" /\ o.addressType # "IPv4"
        \/ f = "address" /\ o.endpoints[1][1] # a.IP
        \/ f = "name" /\ o.ports[1].name # portName
        \/ f = "port" /\ o.ports[1].port # a.Port
        \/ f = "protocol" /\ o.ports[1].protocol # "TCP"}

OneFieldOff(o, serviceName, portName, a) ==
    /\ Len(o.endpoints) = 1
    /\ Len(o.endpoints[1]) = 1
    /\ Len(o.ports) = 1
    /\ Cardinality(DifferingFields(o, serviceName, portName, a)) = 1

\* the updateEndpointSlice call for rec.svc has returned
CallReturned == rec.result # "none"
\* no call of it failed other than by not-found, and nobody else wrote the object
Undisturbed == ~rec.failed /\ ~rec.ext

\* C1: when the object Get returned already matches the intent, the call
\* returns nil and has issued no Update and no Create, and the object on the
\* server is still the one that was read (unless another client wrote it).
C1_NoWriteWhenMatching ==
    (rec.got = "found" /\ Matching(rec.obj[1], cfg.serviceName, rec.svc, addr))
      => /\ rec.result = "ok"
         /\ rec.updates = 0
         /\ rec.creates = 0
         /\ rec.wrote = <<>>
         /\ ~rec.ext => store[keyOf(rec.svc)] = rec.obj

C1_Witness ==
    /\ rec.got = "found"
    /\ Matching(rec.obj[1], cfg.serviceName, rec.svc, addr)
    /\ rec.result = "ok"
    /\ rec.svc = "prometheus"

\* both URLs of the answer are present and resolve whatever the resolver says
BothResolve ==
    \A s \in Services :
      /\ services[s] # EmptyURL
      /\ \A l \in DnsAnswers : parseServiceURL(services[s], l).err = "nil"

\* C2: in a cycle that tracks both services (under two object names), with
\* both URLs resolving, a failed Get, Update or Create for one service (an API
\* error, not a cancellation) still leaves the other service's object read in
\* that cycle.
C2_SiblingStillReconciled ==
    (/\ pc = "returned"
     /\ Tracked("dashboard")
     /\ Tracked("prometheus")
     /\ cfg.dashboardSlice # cfg.prometheusSlice
     /\ BothResolve
     /\ runErr.kind = "update"
     /\ ~cancelled)
      => cyc.attempted = Services

\* C3: a cycle that fails because a tracked service's URL is absent or does
\* not resolve has written no object of any service.
C3_AllOrNothingBuild ==
    (/\ pc = "returned"
     /\ runErr.kind \in {"not found", "parse"}
     /\ cfg.dashboardSlice # cfg.prometheusSlice)
      => cyc.writes = 0

\* C4: when Get finds no object (and no call fails, and nobody else writes the
\* object), the call issues exactly one Create and returns nil (the not-found
\* of Get is no error), and the object then exists and matches the intent.
C4_CreateWhenAbsent ==
    (rec.got = "notfound" /\ CallReturned /\ Undisturbed)
      => /\ rec.result = "ok"
         /\ rec.creates = 1
         /\ rec.wrote = << Desired(cfg.serviceName, rec.svc, addr) >>
         /\ store[keyOf(rec.svc)] # <<>>
         /\ Matching(store[keyOf(rec.svc)][1], cfg.serviceName, rec.svc, addr)

C4_Witness ==
    /\ rec.got = "notfound"
    /\ CallReturned
    /\ Undisturbed
    /\ rec.creates = 1
    /\ store[keyOf(rec.svc)] # <<>>

\* C5: when Get finds an object that differs from the intent in exactly one
\* compared field (and no call fails, and nobody else writes the object), the
\* call issues exactly one write, an Update, carrying the complete desired
\* object, which is then the object on the server.
C5_OneFullWrite ==
    (/\ rec.got = "found"
     /\ OneFieldOff(rec.obj[1], cfg.serviceName, rec.svc, addr)
     /\ CallReturned
     /\ Undisturbed)
      => /\ rec.result = "ok"
         /\ rec.updates = 1
         /\ rec.creates = 0
         /\ rec.wrote = << Desired(cfg.serviceName, rec.svc, addr) >>
         /\ store[keyOf(rec.svc)] = << Desired(cfg.serviceName, rec.svc, addr) >>

C5_Witness ==
    /\ rec.got = "found"
    /\ OneFieldOff(rec.obj[1], cfg.serviceName, rec.svc, addr)
    /\ DifferingFields(rec.obj[1], cfg.serviceName, rec.svc, addr) = {"protocol"}
    /\ CallReturned
    /\ Undisturbed
    /\ rec.updates = 1

\* C10: no call of a cycle fails because the signal arrived: a cycle in
\* progress runs its remaining reads and writes as it would have without it.
C10_CycleRunsToCompletion == ~cyc.ctxErr

\* the address the settled environment makes of the URL of service s
Intent(s) == parseServiceURL(settled[1].services[s], settled[1].dns).addr

\* every tracked service's object exists and matches its intent
AllPublished ==
    /\ stable
    /\ \A s \in Services :
         Tracked(s) => /\ store[keyOf(s)] # <<>>
                       /\ Matching(store[keyOf(s)][1], cfg.serviceName, s, Intent(s))

\* C6: in periodic mode, once the environment has settled (the mgr keeps
\* reporting the same present and resolving URLs, calls stop failing, nobody
\* else writes), every tracked service's object eventually matches its intent
\* and goes on matching.
C6_SelfHealing == stable ~> [](AllPublished)

PeriodicFailure == pc = "returned" /\ runErr # NoErr /\ cfg.interval # 0

C8_SingleShot ==
    /\ [][cfg.interval = 0 =>
            /\ (pc' = "query" /\ pc # "query") => pc = "connectKube"
            /\ pc' # "select"
            /\ ~ticker'
            /\ (pc = "returned" /\ pc' # "returned")
                 => (pc' = "exited" /\ exitCode' = IF runErr # NoErr THEN 1 ELSE 0)]_vars
    /\ (cfg.interval = 0 /\ pc = "query") ~> (pc = "exited")

C8_Witness ==
    /\ cfg.interval = 0
    /\ pc = "exited"
    /\ exitCode = 1
    /\ runErr.kind = "update"

ReloadTakesTick == pc = "select" /\ tick /\ ~tick'

\* the files a reload must fail on: not openable, not decodable, an interval
\* that is no duration or is negative, a target name without namespace or
\* without parent service name
FileInvalid(f) ==
    \/ f.state \in {"unreadable", "garbage"}
    \/ /\ f.state = "json"
       /\ \/ f.raw.Interval \in {"-5s", "soon"}
          \/ /\ f.raw.DashboardSlice # "" \/ f.raw.PrometheusSlice # ""
             /\ f.raw.Namespace = "" \/ f.raw.ServiceName = ""

\* the keys of the published objects of configuration c
KeysOf(c) ==
    {<<c.namespace, n>> : n \in {c.dashboardSlice, c.prometheusSlice} \ {""}}

\* C11: when the reload of a tick fails (file not openable or not decodable,
\* interval invalid or negative, target name without namespace or parent
\* service name), the RunConfig, the ticker period and the log level stay as
\* they were, the process does not exit on it, and the cycle of that tick
\* runs with the previous RunConfig.
C11_FailedReloadKeepsConfig ==
    /\ [](\A f \in ConfigFiles : FileInvalid(f) <=> loadConfig(f).err # "nil")
    /\ [][(ReloadTakesTick /\ tk'.new[1].failed)
            => /\ cfg' = cfg
               /\ period' = period
               /\ logDebug' = logDebug
               /\ pc' = "query"
               /\ exitCode' = "none"]_vars
    /\ []((tk.new # <<>> /\ tk.new[1].failed)
            => /\ cfg = tk.prev[1].cfg
               /\ period = tk.prev[1].period
               /\ logDebug = tk.prev[1].logDebug
               /\ tk.runs = 1
               /\ tk.keys \subseteq KeysOf(tk.prev[1].cfg))

C11_Witness ==
    /\ tk.new # <<>>
    /\ tk.new[1].failed
    /\ pc = "returned"
    /\ tk.keys = KeysOf(cfg)
    /\ Cardinality(tk.keys) = 2
    /\ cyc.writes > 0

\* C12: after a successful reload with a different interval, a non-zero
\* interval resets the ticker to the new period, makes the new RunConfig
\* current and the cycle of the tick runs; a zero interval ends the loop
\* with exit status 0 and no further cycle.  A reload with the same interval
\* never resets the ticker.
C12_IntervalChange ==
    [][(ReloadTakesTick /\ ~tk'.new[1].failed)
         => LET n == tk'.new[1].cfg IN
            IF n.interval # cfg.interval
              THEN IF n.interval # 0
                     THEN /\ tk'.reset
                          /\ period' = n.interval
                          /\ cfg' = n
                          /\ pc' = "query"
                          /\ exitCode' = "none"
                          /\ tk'.runs = 1
                     ELSE /\ pc' = "exited"
                          /\ exitCode' = 0
                          /\ tk'.runs = 0
              ELSE /\ ~tk'.reset
                   /\ period' = period]_vars

C12_Witness ==
    /\ pc = "returned"
    /\ tk.reset
    /\ tk.prev # <<>>
    /\ tk.prev[1].period = 30
    /\ period = 60
    /\ cfg.interval = 60

\* the other case of C12: the interval reloaded to zero ended the loop
C12_ZeroReached ==
    /\ pc = "exited"
    /\ tk.new # <<>>
    /\ ~tk.new[1].failed
    /\ tk.new[1].cfg.interval = 0
    /\ tk.runs = 0

\* new and old differ in the interval and in nothing else
OnlyIntervalDiffers(old, new) ==
    /\ new.interval # old.interval
    /\ new = [old EXCEPT !.interval = new.interval]

\* C13: a reload that changes only the interval, to another non-zero value,
\* leaves the namespace, the parent service name, both target names and the
\* debug flag (and the log level) as they were, and the tick runs exactly
\* one cycle: the reload starts the one cycle of its tick, leaves no tick
\* pending, and in the loop a cycle starts on no other step.
C13_IntervalOnlyReload ==
    /\ [][(ReloadTakesTick /\ ~tk'.new[1].failed
             /\ OnlyIntervalDiffers(cfg, tk'.new[1].cfg) /\ tk'.new[1].cfg.interval # 0)
            => /\ cfg'.namespace = cfg.namespace
               /\ cfg'.serviceName = cfg.serviceName
               /\ cfg'.dashboardSlice = cfg.dashboardSlice
               /\ cfg'.prometheusSlice = cfg.prometheusSlice
               /\ cfg'.debug = cfg.debug
               /\ logDebug' = logDebug
               /\ pc' = "query"
               /\ ~tick']_vars
    /\ [][(ticker /\ pc # "query" /\ pc' = "query") => ReloadTakesTick]_vars
    /\ [](tk.reset => tk.runs = 1)

C13_Witness ==
    /\ pc = "returned"
    /\ tk.prev # <<>>
    /\ OnlyIntervalDiffers(tk.prev[1].cfg, cfg)
    /\ tk.prev[1].cfg.interval = 30
    /\ cfg.interval = 60
    /\ tk.keys = KeysOf(cfg)
    /\ runErr = NoErr

\* the reload of this tick succeeded, kept the loop going and changed the
\* namespace, the parent service name or a target name
TargetsReloaded ==
    /\ tk.new # <<>>
    /\ ~tk.new[1].failed
    /\ tk.new[1].cfg.interval # 0
    /\ LET old == tk.prev[1].cfg
           new == tk.new[1].cfg
       IN  \/ new.namespace # old.namespace
           \/ new.serviceName # old.serviceName
           \/ new.dashboardSlice # old.dashboardSlice
           \/ new.prometheusSlice # old.prometheusSlice

\* the cycle of this tick uses the reloaded values only
UsesReloaded ==
    /\ cfg = tk.new[1].cfg
    /\ tk.keys \subseteq KeysOf(tk.new[1].cfg)
    /\ rec.wrote # <<>> => rec.wrote[1].label = tk.new[1].cfg.serviceName

\* C14: after a successful reload that changes the namespace, the parent
\* service name or a target name, the cycle of the same tick reads and writes
\* the published objects with the new values and never with the previous
\* ones; the cycle does get to read them (the process does not die on the
\* way).
C14_NextCycleUsesReloaded ==
    TargetsReloaded => (UsesReloaded /\ ~(pc = "exited" /\ exitCode = 2))

\* the part of C14 that holds: whatever the cycle reads or writes after such
\* a reload, it reads or writes with the new values
C14_NeverThePreviousValues == TargetsReloaded => UsesReloaded

C14_ChangedAndWritten ==
    /\ TargetsReloaded
    /\ pc = "returned"
    /\ cyc.writes = 2
    /\ tk.prev[1].cfg.namespace = "ceph"
    /\ cfg.namespace = "rook"

(***************************************************************************)
(* Properties of a cycle (Spec), continued.                                *)
(***************************************************************************)
\* the cycle has returned, its query had succeeded, s is tracked and the
\* answer of the mgr has no URL for s
AbsentAtReturn(s) ==
    /\ pc = "returned"
    /\ runErr.kind # "mgr services"
    /\ Tracked(s)
    /\ services[s] = EmptyURL

\* C15 as stated: for each tracked service whose discovered URL is empty, the
\* cycle returns an error that names that service, and no read or write of
\* its published object is issued in that cycle.
C15_AbsentServiceNamed ==
    \A s \in Services :
      (AbsentAtReturn(s) /\ cfg.dashboardSlice # cfg.prometheusSlice)
        => (runErr = Err("not found", s) /\ s \notin cyc.attempted)

\* C15 as amended: the cycle returns an error, which names that service
\* unless the cycle already failed at the service before it (dashboard comes
\* before prometheus); no read or write is issued for that service, and the
\* cycle does not succeed.
C15_AbsentServiceFailsCycle ==
    \A s \in Services :
      AbsentAtReturn(s)
        => /\ runErr # NoErr
           /\ \/ runErr = Err("not found", s)
              \/ s = "prometheus" /\ Tracked("dashboard") /\ runErr.svc = "dashboard"
           /\ s \notin cyc.attempted
           /\ rec.svc # s

C15_Witness ==
    /\ AbsentAtReturn("prometheus")
    /\ runErr = Err("not found", "prometheus")
    /\ cyc.attempted = {"dashboard"}
    /\ cyc.writes = 1

\* C16: a service without target name is never read or written and never
\* makes a cycle fail, whatever URL the mgr reports for it; when no service
\* is tracked, a cycle whose query succeeded succeeds and touches no object.
C16_UntrackedIgnored ==
    /\ \A s \in Services :
         ~Tracked(s) => /\ cur # s
                        /\ rec.svc # s
                        /\ s \notin cyc.attempted
                        /\ runErr.svc # s
    /\ (~Tracked("dashboard") /\ ~Tracked("prometheus"))
         => /\ pc \notin {"build", "get", "update", "create"}
            /\ cyc.attempted = {} /\ cyc.writes = 0 /\ rec = NoRec
            /\ (pc = "returned" /\ runErr.kind # "mgr services") => runErr = NoErr

C16_Witness ==
    /\ pc = "returned"
    /\ Tracked("dashboard")
    /\ ~Tracked("prometheus")
    /\ services.prometheus = MalformedURL
    /\ runErr = NoErr
    /\ cyc.attempted = {"dashboard"}
    /\ cyc.writes = 1

\* the other case of C16: nothing is tracked, the mgr reports URLs
C16_NothingTracked ==
    /\ pc = "returned"
    /\ ~Tracked("dashboard")
    /\ ~Tracked("prometheus")
    /\ services.dashboard = UH
    /\ services.prometheus = U1
    /\ runErr = NoErr

\* C17: at start-up and after any reloads, whenever a reconcile is attempted
\* for a tracked service the RunConfig in force has a non-empty namespace and
\* a non-empty parent service name; a configuration with a target name and
\* either of them empty never becomes current.
C17_ValidatedConfig ==
    /\ (cfg.dashboardSlice # "" \/ cfg.prometheusSlice # "")
         => (cfg.namespace # "" /\ cfg.serviceName # "")
    /\ (pc \in {"build", "get", "apply"} \/ rec.svc # "none" \/ cyc.attempted # {})
         => (cfg.namespace # "" /\ cfg.serviceName # "")
    /\ \A k \in tk.keys : k[1] # ""
    /\ \A k \in ReloadKeys : store[k] # <<>> => store[k][1].label # ""

C17_Witness ==
    /\ pc = "returned"
    /\ reloads = 1
    /\ tk.prev # <<>>
    /\ tk.prev[1].cfg.serviceName = "ceph-mgr"
    /\ cfg.serviceName = "mgr2"
    /\ rec.wrote # <<>>
    /\ rec.wrote[1].label = "mgr2"

\* C18: the exit status is non-zero only when the sole cycle of single-shot
\* mode failed or a start-up connection failed; in particular, once the loop
\* runs (periodic mode: failed cycles, failed reloads, cancellation, the
\* interval reloaded to zero) the process ends with status 0 only.
C18_PeriodicModeExitsZero ==
    (pc = "exited" /\ ticker) => exitCode = 0

\* the steps that end the process with a non-zero status: a failed start-up
\* (configuration or connection), the failed sole cycle of single-shot mode,
\* and the nil client of GetSlice
C18_NonZeroExits ==
    [][(pc # "exited" /\ pc' = "exited" /\ exitCode' # 0)
         => \/ pc \in {"loadConfig", "connect"} /\ exitCode' = 1
            \/ pc = "returned" /\ ~ticker /\ mainInterval = 0 /\ runErr # NoErr
                 /\ exitCode' = 1
            \/ pc = "get" /\ ~clientset /\ exitCode' = 2]_vars

\* C19: when another client has written the published object between the
\* reconciler's Get and its write, the write is rejected as a conflict: it
\* leaves the object as the other client wrote it and the reconcile returns
\* an error.
C19_ConflictOnWrite ==
    [][(pc \in {"update", "create"} /\ rec.ext /\ pc' \notin {"update", "create"})
         => /\ store' = store
            /\ pc' = "returned"
            /\ runErr' = Err("update", rec.svc)]_vars

(***************************************************************************)
(* Properties of address resolution (ParseSpec).                           *)
(***************************************************************************)
\* the decimal digits of a number n >= 0, most significant first (<<>> for 0)
RECURSIVE DecimalDigits(_)
DecimalDigits(n) ==
    IF n = 0 THEN <<>> ELSE Append(DecimalDigits(n \div 10), n % 10)

\* the port p of an address is the number the digits ds denote
PortIs(p, ds) == p >= 0 /\ DecimalDigits(p) = StripZeros(ds)

\* C20: for a well-formed URL with an explicit port the resolved port is that
\* port; without a port it is 443 for https and 80 for http (and the port
\* does not make the resolution fail); without a port and with any other
\* scheme, the empty one included, resolution fails and yields no address.
C20_PortSelection ==
    (resolved # <<>> /\ ~rawURL.err)
      => LET r == resolved[1]
             want == IF rawURL.port # <<>> THEN rawURL.port
                     ELSE IF rawURL.scheme = "https" THEN <<4, 4, 3>>
                     ELSE IF rawURL.scheme = "http" THEN <<8, 0>>
                     ELSE <<>>
         IN  IF want = <<>>
               THEN /\ r.err = "no port specified and unknown scheme"
                    /\ r.addr = NoAddr
               ELSE /\ r.err # "no port specified and unknown scheme"
                    /\ rawURL.port = <<>> => r.err # "invalid port"
                    /\ r.err = "nil" => PortIs(r.addr.Port, want)

\* what holds of main.go: the same for the explicit ports below 2^31 (at most
\* nine digits); the others come out as their low 32 bits
C20_PortSelectionBelow2To31 ==
    (resolved # <<>> /\ ~rawURL.err /\ rawURL.port # <<>>
       /\ Len(StripZeros(rawURL.port)) <= 9)
      => /\ resolved[1].err \notin {"no port specified and unknown scheme", "invalid port"}
         /\ resolved[1].err = "nil" => PortIs(resolved[1].addr.Port, rawURL.port)

C20_Witness ==
    /\ resolved # <<>>
    /\ rawURL = URL("http", "mgr.local", <<>>)
    /\ resolved[1] = [err |-> "nil", addr |-> [IP |-> "10.0.0.7", Port |-> 80]]

\* the other cases of C20: an explicit port wins over the scheme, and no
\* port with an unknown scheme fails
C20_ExplicitReached ==
    /\ resolved # <<>>
    /\ rawURL = URL("https", "fd00::7", <<7, 0, 0, 0, 0>>)
    /\ resolved[1] = [err |-> "nil", addr |-> [IP |-> "fd00::7", Port |-> 70000]]

C20_UnknownSchemeReached ==
    /\ resolved # <<>>
    /\ rawURL = URL("", "10.0.0.5", <<>>)
    /\ resolved[1].err = "no port specified and unknown scheme"


\* C21: every address resolution produces has its port in 1..65535: an
\* explicit port of 0, above 65535, or beyond 32 bits makes the resolution fail.
C21_PortInRange ==
    (resolved # <<>> /\ resolved[1].err = "nil")
      => resolved[1].addr.Port \in 1..65535

\* what main.go does with such ports: 0 and 70000 pass, 2^32 + 80 becomes 80,
\* 3000000000 becomes negative
C21_ZeroPasses ==
    /\ resolved # <<>>
    /\ rawURL = URL("https", "10.0.0.5", <<0>>)
    /\ resolved[1] = [err |-> "nil", addr |-> [IP |-> "10.0.0.5", Port |-> 0]]

C21_Truncated ==
    /\ resolved # <<>>
    /\ rawURL = URL("https", "10.0.0.5", <<4, 2, 9, 4, 9, 6, 7, 3, 7, 6>>)
    /\ resolved[1] = [err |-> "nil", addr |-> [IP |-> "10.0.0.5", Port |-> 80]]

C21_Negative ==
    /\ resolved # <<>>
    /\ rawURL = URL("https", "10.0.0.5", <<3, 0, 0, 0, 0, 0, 0, 0, 0, 0>>)
    /\ resolved[1].err = "nil"
    /\ resolved[1].addr.Port = 0 - 1294967296

\* only a port above MaxInt64 is refused
C21_OnlyAtoiRefuses ==
    (resolved # <<>> /\ resolved[1].err = "invalid port")
      => ~DigitsLeq(StripZeros(rawURL.port), MaxInt64)


\* C22: resolution fails for every URL whose host is not an IPv4 or IPv6
\* literal; the resolver is not asked and its answer is never the address.
C22_LiteralHostsOnly ==
    (resolved # <<>> /\ ~rawURL.err /\ ParseIP(rawURL.host) = Nil)
      => resolved[1].err # "nil"

\* what main.go does with a hostname: the first IPv4 address of the
\* resolver's answer is the address
C22_LookupResolves ==
    /\ resolved # <<>>
    /\ rawURL = URL("http", "mgr.local", <<>>)
    /\ dnsAnswer = DnsIPs(<<"fd00::7", "10.0.0.7">>)
    /\ resolved[1] = [err |-> "nil", addr |-> [IP |-> "10.0.0.7", Port |-> 80]]


\* and run publishes it (under Spec)
C22_LookupPublished ==
    /\ rec.result = "ok"
    /\ rec.wrote # <<>>
    /\ services[rec.svc] = UH
    /\ store[keyOf(rec.svc)] = <<NewSlice(cfg.serviceName, rec.svc, [IP |-> "10.0.0.7", Port |-> 80])>>


\* C23: resolving the same raw URL twice gives the same outcome (the same
\* error, or the same IP and port), whatever happens outside in between.
C23_Deterministic ==
    \A i, j \in 1..Len(resolved) : resolved[i] = resolved[j]

\* what holds of main.go: the outcome is the same for malformed URLs, for
\* URLs refused for their port or scheme and for URLs with a literal IP host
C23_DeterministicWithoutLookup ==
    (rawURL.err \/ ParseIP(rawURL.host) # Nil
       \/ parseServiceURL(rawURL, DnsError).err # "resolve hostname")
      => \A i, j \in 1..Len(resolved) : resolved[i] = resolved[j]

\* a hostname resolved twice, with two outcomes
C23_TwoOutcomes ==
    /\ Len(resolved) = 2
    /\ rawURL = URL("http", "mgr.local", <<>>)
    /\ resolved[1] = [err |-> "nil", addr |-> [IP |-> "10.0.0.7", Port |-> 80]]
    /\ resolved[2].err = "resolve hostname"

\* a literal resolved twice across a change of the resolver's answer
C23_LiteralTwice ==
    /\ Len(resolved) = 2
    /\ rawURL = U1
    /\ dnsAnswer # DnsError
    /\ resolved[1] = [err |-> "nil", addr |-> Given]
    /\ resolved[2] = resolved[1]


(***************************************************************************)
(* Properties of the loop and of a cycle.                                  *)
(***************************************************************************)
\* run is executing: between its call and its return
InCycle == pc \in {"query", "build", "get", "update", "create", "apply"}

\* the locals of run do not exist
NoCycleState == cur = "none" /\ services = NoServices /\ rec = NoRec /\ cyc = NoCyc

\* C24: at most one cycle is in flight.  A cycle starts (run is called) only
\* when no cycle is executing, that is after start-up or from the select of
\* the loop, with nothing of a previous cycle left, however many ticks fired
\* meanwhile; and the configuration is loaded or replaced only there too,
\* never while a cycle executes.
C24_OneCycleInFlight ==
    /\ [](pc \in {"loadConfig", "connect", "select"} => NoCycleState)
    /\ [][/\ (pc' = "query" /\ pc # "query")
               => (pc \in {"connect", "select"} /\ NoCycleState)
          /\ (pc' = "query" /\ pc = "select") => (tick /\ ~tick')
          /\ (cfg' # cfg \/ tk'.new # tk.new \/ period' # period
                \/ mainInterval' # mainInterval \/ logDebug' # logDebug)
               => ~InCycle /\ (InCycle' => pc' = "query")]_vars

\* a tick fired while the cycle started by the tick before it is still
\* reconciling: it waits
C24_Witness ==
    /\ pc = "apply"
    /\ tk.runs = 1
    /\ cyc.attempted # {}
    /\ tick


\* the same of main.go's loop (under Spec), which never reloads
C24_OneCycleInFlightWithoutReload ==
    /\ [](pc \in {"validate", "connectCeph", "connectKube", "select"} => NoCycleState)
    /\ [][/\ (pc' = "query" /\ pc # "query")
               => (pc \in {"connectKube", "select"} /\ NoCycleState)
          /\ (pc' = "query" /\ pc = "select") => (tick /\ ~tick')
          /\ cfg' = cfg]_vars


\* the document is a JSON object whose "dashboard" and "prometheus" values,
\* where present, are strings
WellFormedObject(resp) ==
    resp.kind = "object" /\ \A s \in Services : resp[s].t \in {"absent", "string"}

\* C25: a response that is a JSON object lacking the key of a service decodes
\* without error, with that service's URL empty and the other URL as
\* reported; the cycle that got it fails for that service only if the
\* service is tracked (then as "not found", before its object is read), and
\* an untracked service whose key is lacking fails nothing.  The decoding is
\* looked at where run is about to call getMgrServices.
C25_MissingKeyIsAbsentService ==
    /\ pc = "query"
         => \A resp \in MgrResponses :
              WellFormedObject(resp)
                => LET r == getMgrServices(FALSE, resp)
                   IN  /\ r.err = "nil"
                       /\ \A s \in Services :
                            r.services[s] = IF s \in Lacking(resp) THEN EmptyURL
                                            ELSE resp[s].s
    /\ \A s \in cyc.lacking :
         /\ cyc.query = "nil"
         /\ services[s] = EmptyURL
         /\ s \notin cyc.attempted
         /\ rec.svc # s
         /\ runErr.svc = s => (Tracked(s) /\ runErr = Err("not found", s))
         /\ (pc = "returned" /\ cur = s) => runErr = Err("not found", s)

\* the key of the untracked prometheus is lacking: the cycle reconciles the
\* dashboard and succeeds
C25_Witness ==
    /\ pc = "returned"
    /\ cyc.lacking = {"prometheus"}
    /\ Tracked("dashboard")
    /\ ~Tracked("prometheus")
    /\ runErr = NoErr
    /\ cyc.writes = 1

\* the other cases: the key of a tracked service is lacking, and both keys
\* are lacking while nothing is tracked
C25_TrackedLacking ==
    /\ pc = "returned"
    /\ cyc.lacking = {"prometheus"}
    /\ Tracked("dashboard")
    /\ Tracked("prometheus")
    /\ cyc.attempted = {"dashboard"}
    /\ runErr = Err("not found", "prometheus")

C25_EmptyObject ==
    /\ pc = "returned"
    /\ cyc.lacking = Services
    /\ cyc.query = "nil"
    /\ runErr = NoErr


\* C26: the comparison of the object Get returned is true exactly when the
\* object has the parent-service label, the address type, one endpoint with
\* the one resolved address, and one port entry with the name, number and
\* protocol of the intent, all present.  An object that matches is left
\* alone; any other object (extra addresses or ports or a missing field
\* included) is followed by an Update, and what is written is the complete
\* desired object.
C26_TotalComparison ==
    rec.got = "found"
      => LET o == rec.obj[1]
             m == Matching(o, cfg.serviceName, rec.svc, addr)
         IN  /\ endpointSliceMatches(o, cfg.serviceName, rec.svc, addr) <=> m
             /\ m => (rec.result = "ok" /\ rec.updates = 0 /\ rec.wrote = <<>>)
             /\ ~m => \/ pc = "update" /\ cur = rec.svc /\ rec.updates = 0
                      \/ rec.updates = 1
             /\ (~m /\ CallReturned /\ ~rec.failed)
                  => rec.wrote = << Desired(cfg.serviceName, rec.svc, addr) >>

\* the object read has a second port entry besides the right one: it is
\* overwritten with the desired object
C26_Witness ==
    /\ rec.got = "found"
    /\ Len(rec.obj[1].ports) = 2
    /\ rec.obj[1].ports[1] = EndpointPort(rec.svc, addr.Port, "TCP")
    /\ rec.obj[1].endpoints = << <<addr.IP>> >>
    /\ rec.obj[1].label = cfg.serviceName
    /\ rec.result = "ok"
    /\ rec.updates = 1
    /\ store[keyOf(rec.svc)] = << Desired(cfg.serviceName, rec.svc, addr) >>

\* other objects that do not match: a second address, a port entry without
\* number, no port entry, no endpoint
C26_ExtraAddress ==
    /\ rec.got = "found"
    /\ rec.obj[1].endpoints = << <<"10.0.0.5", "10.0.0.9">> >>
    /\ addr.IP = "10.0.0.5"
    /\ rec.wrote = << Desired(cfg.serviceName, rec.svc, addr) >>

C26_MissingPortNumber ==
    /\ rec.got = "found"
    /\ rec.obj[1].ports = << EndpointPort(rec.svc, NilPort, "TCP") >>
    /\ rec.wrote = << Desired(cfg.serviceName, rec.svc, addr) >>

C26_NoPortNoEndpoint ==
    /\ rec.got = "found"
    /\ (rec.obj[1].ports = <<>> \/ rec.obj[1].endpoints = <<>>)
    /\ rec.wrote = << Desired(cfg.serviceName, rec.svc, addr) >>


\* C27: nothing is retried inside a cycle.  The mon command is issued once
\* per cycle; updateEndpointSlice is called at most once per service and
\* cycle and issues at most one Get, one Update and one Create, the Create
\* only after the Update found no object; a call that fails (other than by
\* not-found) ends the cycle at once with its error, and nothing more is
\* issued.
C27_NoRetries ==
    /\ [](/\ cyc.queries <= 1
          /\ pc \in {"build", "get", "update", "create", "returned"} => cyc.queries = 1
          /\ rec.gets <= 1
          /\ rec.updates <= 1
          /\ rec.creates <= 1
          /\ rec.creates = 1 => rec.updates = 1
          /\ pc \in {"update", "create"} => rec.gets = 1
          /\ rec.failed => (pc = "returned" /\ runErr = Err("update", rec.svc)))
    /\ [][/\ (pc' = "create" /\ pc # "create")
               => (pc = "update" /\ store[keyOf(cur)] = <<>> /\ ~rec'.failed)
          /\ (rec'.svc # rec.svc /\ rec'.svc # "none") => rec'.svc \notin cyc.attempted
          /\ rec.failed
               => (rec'.svc = rec.svc
                     => (rec'.gets = rec.gets /\ rec'.updates = rec.updates
                           /\ rec'.creates = rec.creates))]_vars

\* an Update that failed with an API error: one Get, one Update, no Create,
\* and the cycle is over with that error
C27_Witness ==
    /\ pc = "returned"
    /\ ~cancelled
    /\ cyc.queries = 1
    /\ rec.gets = 1
    /\ rec.got = "found"
    /\ rec.updates = 1
    /\ rec.creates = 0
    /\ rec.failed
    /\ runErr = Err("update", rec.svc)

\* the Create after an Update that found no object
C27_CreateAfterNotFound ==
    /\ rec.gets = 1
    /\ rec.updates = 1
    /\ rec.creates = 1
    /\ rec.result = "ok"


QueryFailed == cyc.query \in {"mon command", "unmarshal response"}

C28_MonCommandFails ==
    /\ pc = "returned"
    /\ cyc.query = "mon command"
    /\ cfg.dashboardSlice # ""
    /\ cfg.prometheusSlice # ""
    /\ runErr = Err("mgr services", "none")

\* the loop after a run whose query failed, the next tick waiting
C28_NextTick ==
    /\ pc = "select"
    /\ runErr = Err("mgr services", "none")
    /\ tick
    /\ ~cancelled


\* the Get of updateEndpointSlice returned an error other than not-found
GetFailed == rec.got = "err"

\* C29: when the Get of the published object fails with an error other than
\* not-found, updateEndpointSlice returns an error and has issued no Update,
\* Create or Apply; the step leaves the store as it was and counts no write.
C29_GetErrorNoWrite ==
    /\ [](GetFailed
            => /\ rec.gets = 1
               /\ rec.updates = 0
               /\ rec.creates = 0
               /\ rec.applies = 0
               /\ rec.wrote = <<>>
               /\ rec.failed
               /\ rec.result = "err"
               /\ rec.svc \in cyc.attempted
               /\ pc = "returned"
               /\ runErr = Err("update", rec.svc))
    /\ [][(pc = "get" /\ GetFailed')
            => (store' = store /\ cyc'.writes = cyc.writes /\ pc' = "returned")]_vars

\* the same under the listing that writes with Apply
C29_GetErrorNoApply ==
    [](GetFailed
         => /\ rec.gets = 1
            /\ rec.applies = 0
            /\ rec.wrote = <<>>
            /\ pc = "returned"
            /\ runErr = Err("update", rec.svc))

\* the Get failed with an API error while the context was live
C29_Witness ==
    /\ GetFailed
    /\ ~cancelled
    /\ pc = "returned"
    /\ rec.updates = 0
    /\ rec.creates = 0
    /\ runErr = Err("update", rec.svc)

\* the Get for prometheus failed after the dashboard object was written
C29_SecondServiceGetFails ==
    /\ GetFailed
    /\ rec.svc = "prometheus"
    /\ cyc.writes = 1
    /\ pc = "returned"

\* the Get failed in the listing that writes with Apply
C29_WitnessApply ==
    /\ GetFailed
    /\ ~cancelled
    /\ clientset
    /\ pc = "returned"
    /\ rec.applies = 0


\* the Get of the parent Service failed
OwnerLookupFailed == rec.ownerGet = "err"

\* C30: when the Get of the parent Service fails, updateEndpointSlice still
\* issues the Apply, with the object it would have sent otherwise except for
\* the owner reference, and returns nil exactly when the Apply succeeded and
\* the Apply's error otherwise.
C30_OwnerLookupNeverFails ==
    /\ OwnerLookupFailed
         => /\ rec.applies = 1
            /\ rec.result \in {"ok", "err"}
            /\ rec.result = "err" <=> rec.failed
            /\ rec.result = "ok"
                 => /\ rec.wrote = <<AppliedSlice(cfg.serviceName, rec.svc, addr, FALSE)>>
                    /\ pc \in {"build", "returned"}
                    /\ (pc = "returned" /\ cur = rec.svc) => runErr = NoErr
            /\ rec.result = "err"
                 => /\ rec.wrote = <<>>
                    /\ pc = "returned"
                    /\ runErr = Err("update", rec.svc)
    /\ (rec.ownerGet = "ok" /\ rec.result = "ok")
         => rec.wrote = <<[AppliedSlice(cfg.serviceName, rec.svc, addr, FALSE)
                             EXCEPT !.owner = TRUE]>>

\* the lookup failed and the Apply succeeded: the object is in the store
\* without an owner reference
C30_Witness ==
    /\ OwnerLookupFailed
    /\ ~cancelled
    /\ rec.result = "ok"
    /\ rec.applies = 1
    /\ Len(rec.wrote) = 1
    /\ ~rec.wrote[1].owner
    /\ store[keyOf(rec.svc)] = rec.wrote

\* the lookup failed and the Apply failed too
C30_BothFail ==
    /\ OwnerLookupFailed
    /\ ~cancelled
    /\ rec.result = "err"
    /\ runErr = Err("update", rec.svc)

\* the lookup succeeded and the Apply failed
C30_OnlyApplyFails ==
    /\ rec.ownerGet = "ok"
    /\ rec.applies = 1
    /\ rec.result = "err"


(***************************************************************************)
(* Properties of the steady state, the race with other writers, the        *)
(* client, the address type, cancellation, the timer, and the frame.       *)
(***************************************************************************)
\* a cycle has returned nil since the environment settled (runErr keeps the
\* result of the last run until the next tick is taken)
SettledCycleSucceeded == stable /\ pc = "select" /\ runErr = NoErr

SharedName == cfg.dashboardSlice # "" /\ cfg.dashboardSlice = cfg.prometheusSlice

\* C31: once the mgr keeps reporting the same URLs, the configuration stays
\* and nobody else writes, then after one cycle that returned nil no later
\* cycle writes anything, whatever the configuration, two services on one
\* object name included.
C31_SteadyStateNoWrites == [](SettledCycleSucceeded => [](cyc.writes = 0))

\* the same for configurations whose target names differ
C31_SteadyStateNoWritesDistinctNames ==
    []((SettledCycleSucceeded /\ ~SharedName) => [](cyc.writes = 0))

\* with one name for both services, a later cycle finds under it the object
\* written for prometheus when it reconciles the dashboard, and overwrites it
C31_SharedNameRewritten ==
    /\ stable
    /\ SharedName
    /\ ticker
    /\ rec.svc = "dashboard"
    /\ rec.got = "found"
    /\ rec.obj = <<NewSlice(cfg.serviceName, "prometheus", addr)>>
    /\ rec.wrote = <<NewSlice(cfg.serviceName, "dashboard", addr)>>

\* a steady state with two names: a successful cycle behind, both published
C31_SteadyReached ==
    /\ SettledCycleSucceeded
    /\ ~SharedName
    /\ cfg.dashboardSlice # ""
    /\ cfg.prometheusSlice # ""
    /\ AllPublished
    /\ tick


\* C32: whatever other clients do to the object while updateEndpointSlice
\* runs, a call that returns nil either read an object matching the intent
\* and wrote nothing, or its own Update or Create put the intended object on
\* the server (at the step of the write the stored object is the one
\* written); a Create that finds the object created by someone else in the
\* meantime fails, and the call returns the error.
C32_SuccessMeansMatchedOnce ==
    /\ [](rec.result = "ok"
            => \/ /\ rec.got = "found"
                  /\ Matching(rec.obj[1], cfg.serviceName, rec.svc, addr)
                  /\ rec.wrote = <<>>
                  /\ rec.updates = 0
                  /\ rec.creates = 0
               \/ /\ rec.wrote = <<Desired(cfg.serviceName, rec.svc, addr)>>
                  /\ Matching(rec.wrote[1], cfg.serviceName, rec.svc, addr)
                  /\ rec.updates = 1)
    /\ [][/\ (rec'.wrote # rec.wrote /\ rec'.wrote # <<>>)
               => /\ pc \in {"update", "create"}
                  /\ store'[keyOf(cur)] = rec'.wrote
                  /\ rec'.result = "ok"
          /\ (pc = "create" /\ rec'.creates = rec.creates + 1 /\ store[keyOf(cur)] # <<>>)
               => /\ rec'.result = "err"
                  /\ store' = store
                  /\ pc' = "returned"
                  /\ runErr' = Err("update", cur)]_vars

\* Get and Update found no object, another client created one, Create failed
C32_Witness ==
    /\ pc = "returned"
    /\ ~cancelled
    /\ rec.got = "notfound"
    /\ rec.updates = 1
    /\ rec.creates = 1
    /\ rec.ext
    /\ rec.result = "err"
    /\ rec.wrote = <<>>
    /\ store[keyOf(rec.svc)] # <<>>
    /\ runErr = Err("update", rec.svc)

\* another client replaced the object between Get and Update, and the call
\* succeeded by overwriting it
C32_OverwroteOtherWriter ==
    /\ rec.got = "found"
    /\ rec.ext
    /\ rec.result = "ok"
    /\ rec.updates = 1
    /\ store[keyOf(rec.svc)] = rec.wrote

\* another client deleted the object after Get had found it matching
C32_MatchedThenDeleted ==
    /\ rec.got = "found"
    /\ rec.result = "ok"
    /\ rec.wrote = <<>>
    /\ rec.ext
    /\ store[keyOf(rec.svc)] = <<>>

\* another client deleted the object between Get and Update, and the call
\* created it
C32_CreatedAfterDelete ==
    /\ rec.got = "found"
    /\ rec.ext
    /\ rec.creates = 1
    /\ rec.result = "ok"


\* updateEndpointSlice is about to use, or has used, the client
Reconciling == pc \in {"get", "update", "create", "apply"}

\* C33: whenever a cycle reconciles a tracked service, the Kubernetes client
\* exists, also after reloads, including a reload that configures a slice
\* name when the configuration at start-up had none.
C33_ClientAvailable == Reconciling => clientset

\* the same in the main that reads its configuration once, from the
\* environment
C33_ClientAvailableWithoutReload == Reconciling => (clientset /\ reloads = 0)

\* start-up without slice names, a reload that configures one, and
\* updateEndpointSlice called with the nil client
C33_NilClientUsed ==
    /\ pc = "get"
    /\ ~clientset
    /\ reloads = 1
    /\ tk.prev # <<>>
    /\ tk.prev[1].cfg.dashboardSlice = ""
    /\ tk.prev[1].cfg.prometheusSlice = ""
    /\ Tracked(cur)

\* the nil pointer dereference ends the process
C33_Panicked ==
    /\ pc = "exited"
    /\ exitCode = 2
    /\ ~clientset


\* the object run publishes for the dashboard at the address a resolution
\* returned (main.go 147-151 and 294-315)
PublishedFor(r) == NewSlice("ceph-mgr", "dashboard", r.addr)

\* the address type of o is the family of its one address
TypeFollowsFamily(o) ==
    /\ Len(o.endpoints) = 1
    /\ Len(o.endpoints[1]) = 1
    /\ o.addressType = (IF To4(o.endpoints[1][1]) THEN "IPv4" ELSE "IPv6")

\* C34: the object written for a resolved address has the address type of
\* the family of that address; an IPv6 address is never published as IPv4.
C34_AddressTypeFollowsFamily ==
    \A i \in 1..Len(resolved) :
        resolved[i].err = "nil" => TypeFollowsFamily(PublishedFor(resolved[i]))

\* the same for the listing that takes IP literals only and writes with Apply
C34_AppliedTypeFollowsFamily ==
    LET r == parseServiceURLStrict(rawURL) IN
    (resolved # <<>> /\ r.err = "nil")
        => TypeFollowsFamily(AppliedSlice("ceph-mgr", "dashboard", r.addr, TRUE))

\* for IPv4 addresses the type written is right
C34_IPv4TypedIPv4 ==
    \A i \in 1..Len(resolved) :
        (resolved[i].err = "nil" /\ To4(resolved[i].addr.IP))
            => TypeFollowsFamily(PublishedFor(resolved[i]))

\* an IPv6 literal resolved, and the object for it has address type IPv4
C34_IPv6LiteralAsIPv4 ==
    /\ resolved # <<>>
    /\ rawURL.host = "fd00::7"
    /\ resolved[1].err = "nil"
    /\ resolved[1].addr.IP = "fd00::7"
    /\ PublishedFor(resolved[1]).addressType = "IPv4"
    /\ parseServiceURLStrict(rawURL).addr.IP = "fd00::7"

\* a hostname with IPv6 addresses only
C34_IPv6LookupAsIPv4 ==
    /\ resolved # <<>>
    /\ rawURL.host = "mgr.local"
    /\ resolved[1].err = "nil"
    /\ resolved[1].addr.IP = "fd00::7"
    /\ PublishedFor(resolved[1]).addressType = "IPv4"


\* C35: once ctx is done and main waits in the select, no run is started:
\* with ctx.Done() and a tick both ready, the loop returns, and no mon
\* command is issued after the cancellation.
C35_NoCycleAfterCancel ==
    [][(pc = "select" /\ cancelled) => pc' \in {"select", "exited"}]_vars

\* with ctx.Done() ready and no tick waiting, the loop returns with status 0
C35_CancelAloneEndsLoop ==
    [][(pc = "select" /\ cancelled /\ ~tick /\ pc' # pc)
          => (pc' = "exited" /\ exitCode' = 0)]_vars

\* the select with both cases ready
C35_BothPending ==
    /\ pc = "select"
    /\ cancelled
    /\ tick

\* a run started from the select although ctx was done before the select
\* was entered: the mon command has been issued, and the first call with
\* ctx failed
C35_CycleAfterCancel ==
    /\ cancelled
    /\ ticker
    /\ cyc.queries = 1
    /\ cyc.ctxErr
    /\ pc = "returned"


\* main is at the call of time.NewTicker (main.go 111)
AtNewTicker ==
    /\ pc = "returned"
    /\ ~ticker
    /\ AfterFirstRun(runErr, cfg.interval) = "loop"

\* C36: the ticker is created with a positive period only: whatever interval
\* the configuration has, main calls time.NewTicker with a positive one, and
\* a negative interval never reaches it.
C36_PositivePeriod ==
    /\ AtNewTicker => cfg.interval > 0
    /\ ticker => cfg.interval > 0

\* the same for non-negative values of the environment variable
C36_PositivePeriodUnlessNegative ==
    cfg.interval >= 0
        => /\ AtNewTicker => cfg.interval > 0
           /\ ticker => cfg.interval > 0
           /\ pc = "exited" => exitCode \in {0, 1}

\* the main that reads the configuration file: loadConfig refuses negative
\* intervals, and the ticker is created and reset with positive periods
C36_PositivePeriodReloading ==
    /\ cfg.interval >= 0
    /\ mainInterval >= 0
    /\ ticker => period > 0
    /\ (pc = "returned" /\ ~ticker /\ AfterFirstRun(runErr, mainInterval) = "loop")
         => mainInterval > 0

\* CEPH_MGR_INTERVAL=-5s: the first run is over and main calls NewTicker(-5s)
C36_NegativeAtNewTicker ==
    /\ AtNewTicker
    /\ cfg.interval = -5

\* the panic of time.NewTicker
C36_TickerPanicked ==
    /\ pc = "exited"
    /\ exitCode = 2
    /\ cfg.interval < 0
    /\ ~ticker

\* a ticker created with a positive interval taken from the environment
C36_TickerCreated ==
    /\ ticker
    /\ cfg.interval = 60
    /\ pc = "select"


\* the loop takes a tick and loadConfig finds no configuration file
ReloadFindsNoFile == pc = "select" /\ tick /\ ~tick' /\ tk'.absent

\* C37: when the configuration file is gone at a reload, the configuration
\* in use is kept and the loop goes on: the cycle of this tick is run with
\* the services that were tracked, and the ticker keeps its period.
C37_AbsentFileKeepsConfig ==
    [][ReloadFindsNoFile
         => /\ cfg' = cfg
            /\ period' = period
            /\ mainInterval' = mainInterval
            /\ pc' = "query"]_vars

\* what the loop does instead: the configuration is kept, but the loop
\* returns and the process ends with status 0, without a cycle
C37_AbsentFileEndsLoop ==
    [][ReloadFindsNoFile
         => /\ cfg' = cfg
            /\ tk'.new = <<[failed |-> FALSE, cfg |-> EmptyConfig]>>
            /\ tk'.loaded = "changed"
            /\ mainInterval' = 0
            /\ pc' = "exited"
            /\ exitCode' = 0
            /\ store' = store]_vars

\* both services tracked, the file removed, no signal: the process has ended
C37_LoopEnded ==
    /\ pc = "exited"
    /\ exitCode = 0
    /\ ~cancelled
    /\ tk.absent
    /\ cfg.dashboardSlice # ""
    /\ cfg.prometheusSlice # ""
    /\ cfg.interval = 30


\* the keys whose object this step changes
Changed == {k \in DOMAIN store : store'[k] # store[k]}

\* C38: a step of the controller changes at most the object named by the
\* target name of the service it is reconciling, in the namespace of the
\* configuration in use, and never deletes it; the object of the other
\* tracked service stays as it is, and so does an object under a name or
\* namespace that a reload has taken out of the configuration.
C38_Frame ==
    [][ext' = ext
         => \A k \in Changed :
              /\ pc \in {"update", "create", "apply"}
              /\ Tracked(cur)
              /\ k = keyOf(cur)
              /\ cfg' = cfg
              /\ store'[k] # <<>>
              /\ \A s \in Services \ {cur} :
                   Tracked(s) => store'[keyOf(s)] = store[keyOf(s)]]_vars

\* the same, the other service's object being another object
C38_FrameDistinctNames ==
    [][ext' = ext
         => \A k \in Changed :
              /\ pc \in {"update", "create", "apply"}
              /\ Tracked(cur)
              /\ k = keyOf(cur)
              /\ cfg' = cfg
              /\ store'[k] # <<>>
              /\ \A s \in Services \ {cur} :
                   (Tracked(s) /\ keyOf(s) # keyOf(cur))
                       => store'[keyOf(s)] = store[keyOf(s)]]_vars

\* an object published under a target name that a reload replaced is still
\* there, beside the object under the new name
C38_LeftBehind ==
    /\ reloads = 1
    /\ cfg.dashboardSlice = "slice-c"
    /\ store[<<"ceph", "slice-a">>] # <<>>
    /\ store[<<"ceph", "slice-c">>] # <<>>

\* the same for a namespace that a reload changed
C38_LeftBehindNamespace ==
    /\ reloads = 1
    /\ cfg.namespace = "rook"
    /\ store[<<"ceph", "slice-a">>] # <<>>
    /\ store[<<"rook", "slice-a">>] # <<>>

\* both services tracked under two names, both objects published
C38_BothPublished ==
    /\ cfg.dashboardSlice = "slice-a"
    /\ cfg.prometheusSlice = "slice-b"
    /\ store[<<cfg.namespace, "slice-a">>] # <<>>
    /\ store[<<cfg.namespace, "slice-b">>] # <<>>
    /\ ext = 0

====
